---- MODULE Spec2Model ----
(***************************************************************************)
(* Model of simplemux.c (version 1.4.7): the main loop of main() with its   *)
(* three branches (NET to TAP, TAP to NET, period expired), the Mux         *)
(* separator encoder and decoder, and the accumulation of tap packets in    *)
(* muxed_packet.                                                            *)
(*                                                                          *)
(* A buffer of chars is kept as a sequence of runs of bytes 0..255: a run is *)
(* one byte a statement stored by value (a separator byte), or a stretch    *)
(* of the bytes of one packet read from tun/tap.  BufAt gives the byte at a *)
(* C index, BufLen the number of bytes.  muxed_packet holds the bytes       *)
(* stored since size_muxed_packet was last set to 0 (the bytes left over    *)
(* from earlier bundles are never read again).                              *)
(* The TAP to NET branch is cut at the places where the code looks at the   *)
(* accumulator: after the read (pc = "mtu"), after the MTU block            *)
(* (pc = "append"), after the packet has been stored (pc = "trigger").      *)
(***************************************************************************)
EXTENDS Integers, Sequences, FiniteSets, TLC

VARIABLES
    charSigned,                  \* whether plain 'char' is signed in this build
    limit_numpackets_tap,        \* -n after the defaulting of lines 507-510
    size_threshold,              \* -b
    timeout,                     \* -t
    period,                      \* -P
    compress_headers,            \* -r: 1 if the headers are compressed with ROHC
    status,                      \* the result of the last call of the ROHC library
    pc,                          \* position of main(): select, mtu, append, trigger, exit
    now,                         \* the system clock (GetTimeStamp); it never goes back
    time_last_sent_in_microsec,
    time_in_microsec,
    size_packet_read_from_tap,
    packet_read_from_tap,
    predicted_size_muxed_packet,
    muxed_packet,
    size_muxed_packet,
    num_pkts_stored_from_tap,
    tap2net,
    net2tap,
    buffer_from_net,
    nread_from_net,
    packet_length,               \* separator codec: the last decoded length
    position,                    \* separator codec: bytes consumed by the last decode
    ticks,                       \* number of period expiries so far
    rd_set,                      \* the descriptors select() reported ready
    net_fd,                      \* the datagrams waiting at the UDP socket
    tap_fd,                      \* the packets waiting at the tun/tap device
    remote,                      \* struct sockaddr_in remote: address and port
    lastNet,                     \* history: what the last NET to TAP branch did
    sent,                        \* history: every sendto(), in order
    tapOut,                      \* history: every write to the tun/tap device, in order
    accepted,                    \* history: every packet read from tun/tap, in order
    pending,                     \* history: the packets stored since the last reset
    event                        \* history: the last step taken

vars == << charSigned, limit_numpackets_tap, size_threshold, timeout, period,
           compress_headers, status, pc, now,
           time_last_sent_in_microsec, time_in_microsec, size_packet_read_from_tap,
           packet_read_from_tap, predicted_size_muxed_packet, muxed_packet,
           size_muxed_packet, num_pkts_stored_from_tap, tap2net, net2tap,
           buffer_from_net, nread_from_net, packet_length, position, ticks,
           rd_set, net_fd, tap_fd, remote,
           lastNet, sent, tapOut, accepted, pending, event >>

\* the variables of the descriptors; the specification Spec gives the branches
\* their input directly and leaves these as they are
loopVars == << rd_set, net_fd, tap_fd, remote >>

config == << charSigned, limit_numpackets_tap, size_threshold, timeout, period,
            compress_headers >>

codecVars == << packet_length, position, lastNet >>

----------------------------------------------------------------------------
(* Program constants *)

BUFSIZE == 2000

MTU == 1500

MAXPKTS == 100

MAXTHRESHOLD == 1472

MAXTIMEOUT == 100000000

PORT == 55555

(* Bounds of the model *)

MaxTap == 3

MaxNet == 1

MaxTicks == 2

CodecMaxLen == 16383

\* lengths of the packets the tun/tap device delivers (cread with BUFSIZE)
TapLens == {50, 100, 200, 1400, 1499}

\* the time that passes while select() waits for a packet from tun/tap
Deltas == {2}

\* a byte that is not what was stored (see PastEnd)
Garbage(b) == (b + 85) % 256

Min(a, b) == IF a < b THEN a ELSE b

Max(a, b) == IF a > b THEN a ELSE b

----------------------------------------------------------------------------
(* Bytes and chars *)

\* the value of a 'char' holding byte b when it is used in arithmetic
CharVal(signed, b) == IF signed /\ b >= 128 THEN b - 256 ELSE b

\* an int stored into a 'char': the low eight bits
ToChar(x) == x % 256

\* FromByte(c, bits): bits[k] of the byte
Bit(b, k) == (b \div (2 ^ k)) % 2 = 1

\* C's % on ints truncates toward zero
CMod(x, m) == IF x >= 0 THEN x % m ELSE 0 - ((0 - x) % m)

----------------------------------------------------------------------------
(* Buffers *)

\* byte i (from 0) of the k-th packet read from tun/tap
PacketByte(k, i) == (k * 37 + i) % 256

\* the run that is the single byte b
Lit(b) == [k |-> 0, off |-> b, len |-> 1, bad |-> FALSE]

\* byte j (from 0) of run r
RunByte(r, j) ==
    LET v == IF r.k = 0 THEN r.off ELSE PacketByte(r.k, r.off + j)
    IN  IF r.bad THEN Garbage(v) ELSE v

\* the bytes of the k-th packet read from tun/tap, of length len
Payload(len, k) ==
    IF len = 0 THEN << >> ELSE << [k |-> k, off |-> 0, len |-> len, bad |-> FALSE] >>

\* the number of bytes of a buffer
RECURSIVE BufLen(_)
BufLen(buf) == IF buf = << >> THEN 0 ELSE Head(buf).len + BufLen(Tail(buf))

\* buf[i]; an index the stores never reached reads as 0
RECURSIVE BufAt(_, _)
BufAt(buf, i) ==
    IF buf = << >> THEN 0
    ELSE IF i < Head(buf).len THEN RunByte(Head(buf), i)
    ELSE BufAt(Tail(buf), i - Head(buf).len)

\* buf without its first n bytes
RECURSIVE Drop(_, _)
Drop(buf, n) ==
    IF n <= 0 \/ buf = << >> THEN buf
    ELSE IF n >= Head(buf).len THEN Drop(Tail(buf), n - Head(buf).len)
    ELSE << [Head(buf) EXCEPT !.off = @ + n, !.len = @ - n] >> \o Tail(buf)

\* the first n bytes of buf
RECURSIVE Take(_, _)
Take(buf, n) ==
    IF n <= 0 \/ buf = << >> THEN << >>
    ELSE IF n >= Head(buf).len THEN << Head(buf) >> \o Take(Tail(buf), n - Head(buf).len)
    ELSE << [Head(buf) EXCEPT !.len = n] >>

\* the bytes of a followed by the bytes of b (a stretch of a packet that goes on
\* in b is kept as one run)
Cat(a, b) ==
    IF a = << >> THEN b
    ELSE IF b = << >> THEN a
    ELSE LET x == a[Len(a)]
             y == b[1]
         IN  IF x.k # 0 /\ x.k = y.k /\ x.bad = y.bad /\ x.off + x.len = y.off
             THEN SubSeq(a, 1, Len(a) - 1) \o << [x EXCEPT !.len = x.len + y.len] >>
                  \o Tail(b)
             ELSE a \o b

\* buf read back with every byte other than what was stored
Garbled(buf) == [i \in DOMAIN buf |-> [buf[i] EXCEPT !.bad = TRUE]]

\* whether two buffers hold the same bytes
SameBytes(a, b) ==
    \/ a = b
    \/ /\ BufLen(a) = BufLen(b)
       /\ \A i \in 0..(BufLen(a) - 1) : BufAt(a, i) = BufAt(b, i)

----------------------------------------------------------------------------
(* Mux separator *)

\* lines 1055-1059: the size of the bundle if this packet were added to it
PredictedSize(size_muxed, size_packet) ==
    IF size_packet < 64
    THEN size_muxed + 1 + size_packet
    ELSE size_muxed + 2 + size_packet

\* Separator with the one-byte form used up to 64 instead of below 64
SeparatorUpTo64(size_packet) ==
    IF size_packet <= 64
    THEN << Lit(ToChar(size_packet)) >>
    ELSE << Lit(ToChar((size_packet \div 256) + 64)), Lit(ToChar(size_packet % 256)) >>

\* Separator with the one-byte form for every size
SeparatorOneByte(size_packet) == << Lit(ToChar(size_packet)) >>

\* lines 1083-1118: the separator bytes stored in muxed_packet for a packet of
\* size_packet bytes
Separator(size_packet) ==
    IF size_packet < 64
    THEN << Lit(ToChar(size_packet)) >>
    ELSE << Lit(ToChar((size_packet \div 256) + 64)), Lit(ToChar(size_packet % 256)) >>

\* lines 1096 and 1117: what the separator adds to size_muxed_packet
SeparatorSize(size_packet) == IF size_packet < 64 THEN 1 ELSE 2

\* BadSeparator that takes every separator as good
BadSeparatorNever(buf, pos) == FALSE

\* lines 738-739: the separator at pos is bad when its first bit is 1
BadSeparator(buf, pos) == Bit(BufAt(buf, pos), 7)

\* lines 758-780: the length the separator at pos declares
SeparatorLength(signed, buf, pos) ==
    IF ~Bit(BufAt(buf, pos), 6)
    THEN CMod(CharVal(signed, BufAt(buf, pos)), 128)
    ELSE (CMod(CharVal(signed, BufAt(buf, pos)), 64) * 256)
         + CharVal(signed, BufAt(buf, pos + 1))

\* lines 766 and 779: the position after the separator at pos
SeparatorEnd(buf, pos) == IF ~Bit(BufAt(buf, pos), 6) THEN pos + 1 ELSE pos + 2

----------------------------------------------------------------------------
(* Start of main() *)

\* lines 507-510: the packet limit when the user gave none (n = 0)
LimitNumpackets(n, b, t, p) ==
    LET n1 == IF ((b < MAXTHRESHOLD) \/ (t < MAXTIMEOUT) \/ (p < MAXTIMEOUT)) /\ (n = 0)
              THEN MAXPKTS ELSE n
    IN  IF ((b = MAXTHRESHOLD) /\ (t = MAXTIMEOUT) /\ (t = MAXTIMEOUT)) /\ (n1 = 0)
        THEN 1 ELSE n1

\* the command lines of the model: -n (0: not given), -b, -t, -P
Options ==
    { [n |-> 0, b |-> MAXTHRESHOLD, t |-> MAXTIMEOUT, p |-> MAXTIMEOUT],
      [n |-> 3, b |-> MAXTHRESHOLD, t |-> MAXTIMEOUT, p |-> MAXTIMEOUT],
      [n |-> 0, b |-> 200,          t |-> MAXTIMEOUT, p |-> MAXTIMEOUT],
      [n |-> 3, b |-> 2000,         t |-> MAXTIMEOUT, p |-> MAXTIMEOUT],
      [n |-> 0, b |-> MAXTHRESHOLD, t |-> 2,          p |-> 3],
      [n |-> 0, b |-> MAXTHRESHOLD, t |-> 4,          p |-> 2] }

\* the variables the separator codec specification uses, at rest
CodecIdle == /\ packet_length = 0
             /\ position = 0

\* lines 540-542: remote is the peer given with -c and the port
Peer == [addr |-> "peer", port |-> PORT]

\* nothing waits at the descriptors
LoopIdle ==
    /\ rd_set = {}
    /\ net_fd = << >>
    /\ tap_fd = << >>
    /\ remote = Peer

\* no datagram has been received yet
NoNet == [k |-> 0, nwrites |-> 0, exit |-> FALSE, log |-> << >>]

\* lines 356-365 and 514: the state when the main loop is entered
Init ==
    /\ charSigned \in BOOLEAN
    /\ compress_headers = 0
    /\ status = "none"
    /\ \E o \in Options :
          /\ limit_numpackets_tap = LimitNumpackets(o.n, o.b, o.t, o.p)
          /\ size_threshold = o.b
          /\ timeout = o.t
          /\ period = o.p
    /\ pc = "select"
    /\ now = 0
    /\ time_last_sent_in_microsec = now
    /\ time_in_microsec = now
    /\ size_packet_read_from_tap = 0
    /\ packet_read_from_tap = << >>
    /\ predicted_size_muxed_packet = 0
    /\ muxed_packet = << >>
    /\ size_muxed_packet = 0
    /\ num_pkts_stored_from_tap = 0
    /\ tap2net = 0
    /\ net2tap = 0
    /\ buffer_from_net = << >>
    /\ nread_from_net = 0
    /\ CodecIdle
    /\ LoopIdle
    /\ ticks = 0
    /\ lastNet = NoNet
    /\ sent = << >>
    /\ tapOut = << >>
    /\ accepted = << >>
    /\ pending = << >>
    /\ event = "start"

----------------------------------------------------------------------------
(* The wait *)

\* MicrosecondsLeft without the test of line 684
MicrosecondsLeftUnguarded(p, t_now, t_last) == p - (t_now - t_last)

\* lines 683-688: the time left until the period expires
MicrosecondsLeft(p, t_now, t_last) ==
    IF p > (t_now - t_last) THEN p - (t_now - t_last) ELSE 0

\* sendto(net_fd, muxed_packet, size_muxed_packet, ...): the datagram that leaves
Datagram(buf, size) == Take(buf, size)

\* the record kept of one sendto()
Sending(reason) ==
    [ bytes    |-> Datagram(muxed_packet, size_muxed_packet),
      size     |-> size_muxed_packet,
      npkts    |-> num_pkts_stored_from_tap,
      reason   |-> reason,
      at       |-> now,
      payloads |-> pending ]

----------------------------------------------------------------------------
(* TAP to NET *)

\* lines 946-1059 (no header compression): a packet is read from tun/tap and the
\* size of the bundle with it is predicted
TapRead ==
    /\ pc = "select"
    /\ tap2net < MaxTap
    /\ \E len \in TapLens, dt \in Deltas :
          /\ now' = now + dt
          /\ size_packet_read_from_tap' = len
          /\ packet_read_from_tap' = Payload(len, tap2net + 1)
          /\ predicted_size_muxed_packet' = PredictedSize(size_muxed_packet, len)
          /\ accepted' = Append(accepted, Payload(len, tap2net + 1))
    /\ tap2net' = tap2net + 1
    /\ pc' = "mtu"
    /\ event' = "tapread"
    /\ UNCHANGED << config, status, loopVars, time_last_sent_in_microsec, time_in_microsec, muxed_packet,
                    size_muxed_packet, num_pkts_stored_from_tap, net2tap,
                    buffer_from_net, nread_from_net, codecVars, ticks, sent, tapOut,
                    pending >>

\* MtuReached with the size of the read buffer in the place of the MTU
MtuReachedBufsize(predicted) == predicted > BUFSIZE

\* line 1062: the bundle with this packet would not fit the MTU
MtuReached(predicted) == predicted > MTU

\* lines 1062-1075: the stored packets are sent without this one
MtuBlock ==
    /\ pc = "mtu"
    /\ IF MtuReached(predicted_size_muxed_packet)
       THEN /\ sent' = Append(sent, Sending({"MTU"}))
            /\ size_muxed_packet' = 0
            /\ num_pkts_stored_from_tap' = 0
            /\ muxed_packet' = << >>
            /\ pending' = << >>
            /\ event' = "mtuflush"
       ELSE /\ event' = "mtuskip"
            /\ UNCHANGED << sent, size_muxed_packet, num_pkts_stored_from_tap,
                            muxed_packet, pending >>
    /\ pc' = "append"
    /\ UNCHANGED << config, status, loopVars, now, time_last_sent_in_microsec, time_in_microsec,
                    size_packet_read_from_tap, packet_read_from_tap,
                    predicted_size_muxed_packet, tap2net, net2tap, buffer_from_net,
                    nread_from_net, codecVars, ticks, tapOut, accepted >>

\* buf with bytes stored at C index idx and after it
StoreAt(buf, idx, bytes) ==
    Cat(Cat(Take(buf, idx), bytes), Drop(buf, idx + BufLen(bytes)))

\* An array of cap chars after stores that may have gone past its end: what was
\* stored past the end went to whatever the build placed there, and reads back
\* as stored (intact) or as something else.
PastEnd(buf, cap, intact) ==
    IF intact THEN buf ELSE Cat(Take(buf, cap), Garbled(Drop(buf, cap)))

\* StoredSize with one byte counted for every separator
StoredSizeOneByte(size_muxed, size_packet) == size_muxed + 1 + size_packet

\* lines 1096, 1117 and 1121-1126: size_muxed_packet after the separator and the
\* packet have been stored
StoredSize(size_muxed, size_packet) ==
    size_muxed + SeparatorSize(size_packet) + size_packet

\* lines 1078-1126: the separator and the packet are stored in muxed_packet
Store ==
    /\ pc = "append"
    /\ num_pkts_stored_from_tap' = num_pkts_stored_from_tap + 1
    /\ size_muxed_packet' = StoredSize(size_muxed_packet, size_packet_read_from_tap)
    /\ \E intact \in (IF StoredSize(size_muxed_packet, size_packet_read_from_tap) > MTU
                      THEN BOOLEAN ELSE {TRUE}) :
          muxed_packet' =
              PastEnd(StoreAt(muxed_packet, size_muxed_packet,
                              Separator(size_packet_read_from_tap)
                                 \o packet_read_from_tap),
                      MTU, intact)
    /\ pending' = Append(pending, packet_read_from_tap)
    /\ pc' = "trigger"
    /\ event' = "store"
    /\ UNCHANGED << config, status, loopVars, now, time_last_sent_in_microsec, time_in_microsec,
                    size_packet_read_from_tap, packet_read_from_tap,
                    predicted_size_muxed_packet, tap2net, net2tap, buffer_from_net,
                    nread_from_net, codecVars, ticks, sent, tapOut, accepted >>

\* Triggered without the test of the number of packets
TriggeredNoCount(num, size, time_difference) ==
    (size > size_threshold) \/ (time_difference > timeout)

\* Triggered without the test of the timeout
TriggeredNoTimeout(num, size, time_difference) ==
    (num = limit_numpackets_tap) \/ (size > size_threshold)

\* Triggered without the test of the size
TriggeredNoSize(num, size, time_difference) ==
    (num = limit_numpackets_tap) \/ (time_difference > timeout)

\* line 1135: the conditions that trigger the sending
Triggered(num, size, time_difference) ==
    (num = limit_numpackets_tap) \/ (size > size_threshold) \/ (time_difference > timeout)

\* the tags the log gives the sending (lines 1152-1157)
TriggerTags(num, size, time_difference) ==
    (IF num = limit_numpackets_tap THEN {"numpacket_limit"} ELSE {})
    \cup (IF size > size_threshold THEN {"size_limit"} ELSE {})
    \cup (IF time_difference > timeout THEN {"timeout"} ELSE {})

\* lines 1129-1165: the clock is read and the stored packets are sent if the packet
\* limit, the size threshold or the timeout is reached
Trigger ==
    /\ pc = "trigger"
    /\ time_in_microsec' = now
    /\ IF Triggered(num_pkts_stored_from_tap, size_muxed_packet,
                    now - time_last_sent_in_microsec)
       THEN /\ sent' = Append(sent, Sending(TriggerTags(num_pkts_stored_from_tap,
                                  size_muxed_packet,
                                  now - time_last_sent_in_microsec)))
            /\ size_muxed_packet' = 0
            /\ num_pkts_stored_from_tap' = 0
            /\ time_last_sent_in_microsec' = now
            /\ muxed_packet' = << >>
            /\ pending' = << >>
            /\ event' = "trigflush"
       ELSE /\ event' = "trigskip"
            /\ UNCHANGED << sent, size_muxed_packet, num_pkts_stored_from_tap,
                            time_last_sent_in_microsec, muxed_packet, pending >>
    /\ pc' = "select"
    /\ UNCHANGED << config, status, loopVars, now, size_packet_read_from_tap, packet_read_from_tap,
                    predicted_size_muxed_packet, tap2net, net2tap, buffer_from_net,
                    nread_from_net, codecVars, ticks, tapOut, accepted >>

----------------------------------------------------------------------------
(* Period expired *)

\* PeriodExpired with time_last_sent_in_microsec set only when packets were sent
PeriodExpiredSetsTimeOnSend ==
    /\ pc = "select"
    /\ ticks < MaxTicks
    /\ ticks' = ticks + 1
    /\ now' = now + MicrosecondsLeft(period, now, time_last_sent_in_microsec)
    /\ time_in_microsec' = now'
    /\ IF num_pkts_stored_from_tap > 0
       THEN /\ sent' = Append(sent, [Sending({"period"}) EXCEPT !.at = now'])
            /\ size_muxed_packet' = 0
            /\ num_pkts_stored_from_tap' = 0
            /\ muxed_packet' = << >>
            /\ pending' = << >>
            /\ event' = "periodflush"
            /\ time_last_sent_in_microsec' = now'
       ELSE /\ event' = "periodidle"
            /\ UNCHANGED << sent, size_muxed_packet, num_pkts_stored_from_tap,
                            muxed_packet, pending, time_last_sent_in_microsec >>
    /\ pc' = "select"
    /\ UNCHANGED << config, status, loopVars, size_packet_read_from_tap, packet_read_from_tap,
                    predicted_size_muxed_packet, tap2net, net2tap, buffer_from_net,
                    nread_from_net, codecVars, tapOut, accepted >>

\* lines 1172-1198: select() returned with no descriptor ready
PeriodExpired ==
    /\ pc = "select"
    /\ ticks < MaxTicks
    /\ ticks' = ticks + 1
    /\ now' = now + MicrosecondsLeft(period, now, time_last_sent_in_microsec)
    /\ time_in_microsec' = now'
    /\ IF num_pkts_stored_from_tap > 0
       THEN /\ sent' = Append(sent, [Sending({"period"}) EXCEPT !.at = now'])
            /\ size_muxed_packet' = 0
            /\ num_pkts_stored_from_tap' = 0
            /\ muxed_packet' = << >>
            /\ pending' = << >>
            /\ event' = "periodflush"
       ELSE /\ event' = "periodidle"
            /\ UNCHANGED << sent, size_muxed_packet, num_pkts_stored_from_tap,
                            muxed_packet, pending >>
    /\ time_last_sent_in_microsec' = now'
    /\ pc' = "select"
    /\ UNCHANGED << config, status, loopVars, size_packet_read_from_tap, packet_read_from_tap,
                    predicted_size_muxed_packet, tap2net, net2tap, buffer_from_net,
                    nread_from_net, codecVars, tapOut, accepted >>

----------------------------------------------------------------------------
(* NET to TAP *)

\* line 715: recvfrom() stores at most BUFSIZE bytes of the datagram
Received(d) == Take(d, Min(BufLen(d), BUFSIZE))

\* buffer_from_net after recvfrom(): the bytes after the datagram are left as they were
Refill(buf, d) == Cat(d, Drop(buf, BufLen(d)))

\* lines 784-787: the bytes copied to demuxed_packet
Copied(buf, pos, len) == Take(Drop(buf, pos), len)

\* lines 736-928 (no header compression): the demultiplexing loop from pos on;
\* writes are the packets written to tun/tap, exit says that the process ended
\* (cwrite() failed, or the copy loop of lines 784-787, which runs before the
\* length is checked, stored past the end of demuxed_packet and the stores
\* destroyed what the build had placed there), log holds the error records
Demux(signed, buf, nread, pos, intact) ==
    LET from[p \in 0..BUFSIZE] ==
            IF p >= nread
            THEN [writes |-> << >>, exit |-> FALSE, log |-> << >>]
            ELSE IF BadSeparator(buf, p)
            THEN [writes |-> << >>, exit |-> FALSE, log |-> << "bad_separator" >>]
            ELSE LET len   == SeparatorLength(signed, buf, p)
                     start == SeparatorEnd(buf, p)
                     end   == IF len > 0 THEN start + len ELSE start
                 IN  IF end > nread /\ len > MTU /\ ~intact
                     THEN [writes |-> << >>, exit |-> TRUE, log |-> << >>]
                     ELSE IF end > nread
                     THEN [writes |-> << >>, exit |-> FALSE,
                           log |-> << "demux_bad_length" >>]
                     ELSE IF len < 0
                     THEN [writes |-> << >>, exit |-> TRUE, log |-> << >>]
                     ELSE [from[end] EXCEPT !.writes =
                              << PastEnd(Copied(buf, start, len), MTU, intact) >> \o @]
    IN  from[pos]

\* whether a copy to demuxed_packet goes past its end while buf is demultiplexed
CopiesPastEnd(signed, buf, nread, pos) ==
    LET from[p \in 0..BUFSIZE] ==
            IF p >= nread \/ BadSeparator(buf, p)
            THEN FALSE
            ELSE LET len == SeparatorLength(signed, buf, p)
                 IN  \/ len > MTU
                     \/ /\ len >= 0
                        /\ SeparatorEnd(buf, p) + len <= nread
                        /\ from[SeparatorEnd(buf, p) + len]
    IN  from[pos]

\* lines 712-941: a datagram from the multiplexing port of the peer is received and
\* demultiplexed; the peer runs this program, and its datagram is the last bundle
\* this model sent
NetBranch ==
    /\ pc = "select"
    /\ net2tap < MaxNet
    /\ net2tap' = net2tap + 1
    /\ \E k \in {Len(sent)} \ {0} :
          LET buf == Refill(buffer_from_net, Received(sent[k].bytes))
              n   == BufLen(Received(sent[k].bytes))
          IN  /\ buffer_from_net' = buf
              /\ nread_from_net' = n
              /\ \E intact \in (IF CopiesPastEnd(charSigned, buf, n, 0)
                                THEN BOOLEAN ELSE {TRUE}) :
                    LET r == Demux(charSigned, buf, n, 0, intact)
                    IN  /\ tapOut' = tapOut \o r.writes
                        /\ lastNet' = [k |-> k, nwrites |-> Len(r.writes),
                                       exit |-> r.exit, log |-> r.log]
                        /\ pc' = IF r.exit THEN "exit" ELSE "select"
    /\ event' = "net"
    /\ UNCHANGED << config, status, loopVars, now, time_last_sent_in_microsec, time_in_microsec,
                    size_packet_read_from_tap, packet_read_from_tap,
                    predicted_size_muxed_packet, muxed_packet, size_muxed_packet,
                    num_pkts_stored_from_tap, tap2net, packet_length, position,
                    ticks, sent, accepted, pending >>

----------------------------------------------------------------------------
(* The program *)

Next ==
    \/ TapRead
    \/ MtuBlock
    \/ Store
    \/ Trigger
    \/ PeriodExpired
    \/ NetBranch

Spec == Init /\ [][Next]_vars

----------------------------------------------------------------------------
(* The separator codec on its own: a length is encoded as the TAP to NET branch *)
(* does and the bytes are decoded as the NET to TAP branch does.               *)

InitCodec ==
    /\ charSigned \in BOOLEAN
    /\ compress_headers = 0
    /\ status = "none"
    /\ limit_numpackets_tap = 1
    /\ size_threshold = MAXTHRESHOLD
    /\ timeout = MAXTIMEOUT
    /\ period = MAXTIMEOUT
    /\ pc = "codec"
    /\ now = 0
    /\ time_last_sent_in_microsec = 0
    /\ time_in_microsec = 0
    /\ size_packet_read_from_tap \in 1..CodecMaxLen
    /\ packet_read_from_tap = << >>
    /\ predicted_size_muxed_packet = 0
    /\ muxed_packet = << >>
    /\ size_muxed_packet = 0
    /\ num_pkts_stored_from_tap = 0
    /\ tap2net = 0
    /\ net2tap = 0
    /\ buffer_from_net = << >>
    /\ nread_from_net = 0
    /\ CodecIdle
    /\ LoopIdle
    /\ ticks = 0
    /\ lastNet = NoNet
    /\ sent = << >>
    /\ tapOut = << >>
    /\ accepted = << >>
    /\ pending = << >>
    /\ event = "start"

\* lines 1083-1118: the separator for size_packet_read_from_tap is stored at the
\* start of muxed_packet
CodecEncode ==
    /\ pc = "codec"
    /\ muxed_packet' = StoreAt(muxed_packet, size_muxed_packet,
                               Separator(size_packet_read_from_tap))
    /\ size_muxed_packet' = size_muxed_packet + SeparatorSize(size_packet_read_from_tap)
    /\ pc' = "encoded"
    /\ event' = "encode"
    /\ UNCHANGED << config, status, loopVars, now, time_last_sent_in_microsec, time_in_microsec,
                    size_packet_read_from_tap, packet_read_from_tap,
                    predicted_size_muxed_packet, num_pkts_stored_from_tap, tap2net,
                    net2tap, buffer_from_net, nread_from_net, codecVars, ticks, sent,
                    tapOut, accepted, pending >>

\* lines 736-780: the separator bytes arrive in buffer_from_net and are decoded
CodecDecode ==
    /\ pc = "encoded"
    /\ buffer_from_net' = Datagram(muxed_packet, size_muxed_packet)
    /\ nread_from_net' = size_muxed_packet
    /\ IF BadSeparator(buffer_from_net', 0)
       THEN /\ position' = nread_from_net'
            /\ packet_length' = packet_length
       ELSE /\ position' = SeparatorEnd(buffer_from_net', 0)
            /\ packet_length' = SeparatorLength(charSigned, buffer_from_net', 0)
    /\ pc' = "decoded"
    /\ event' = "decode"
    /\ UNCHANGED << config, status, loopVars, now, time_last_sent_in_microsec, time_in_microsec,
                    size_packet_read_from_tap, packet_read_from_tap,
                    predicted_size_muxed_packet, muxed_packet, size_muxed_packet,
                    num_pkts_stored_from_tap, tap2net, net2tap, lastNet, ticks, sent,
                    tapOut, accepted, pending >>

NextCodec ==
    \/ CodecEncode
    \/ CodecDecode

SpecCodec == InitCodec /\ [][NextCodec]_vars

----------------------------------------------------------------------------
(* The main loop with its descriptors: packets arrive at the tun/tap device and *)
(* datagrams at the socket, select() reports the descriptors that are ready and *)
(* one branch runs.  The loop may go round for ever, so what is kept here of    *)
(* the past is bounded: sent holds the last sendto() only, tapOut the writes of *)
(* the last NET to TAP branch, accepted the last packet read; the clock and the *)
(* counters are followed up to MaxNow and MaxCount.  SpecLoop has the three     *)
(* branches with one kind of datagram, SpecNet the NET to TAP branch with       *)
(* datagrams of every kind.                                                     *)

MaxQueue == 2

MaxNow == 4

MaxCount == 1

\* lengths of the packets that arrive at the tun/tap device
LoopTapLens == {50}

\* the command line of the loop specification: -n 2 -P 3
LoopOption == [n |-> 2, b |-> MAXTHRESHOLD, t |-> MAXTIMEOUT, p |-> 3]

\* a source that is not the multiplexing port of the peer
Stranger == [addr |-> "other", port |-> PORT + 1]

\* the datagram that arrives at the socket in SpecLoop: two packets from the peer
LoopArrivals ==
    { [bytes |-> << Lit(3) >> \o Payload(3, 1) \o << Lit(64), Lit(70) >> \o Payload(70, 2),
       from  |-> Peer] }

\* the datagrams that arrive at the socket in SpecNet: bytes and source
Arrivals ==
    { \* two packets, one-byte and two-byte separator
      [bytes |-> << Lit(3) >> \o Payload(3, 1) \o << Lit(64), Lit(70) >> \o Payload(70, 2),
       from  |-> Peer],
      \* the same bytes from another port
      [bytes |-> << Lit(3) >> \o Payload(3, 1) \o << Lit(64), Lit(70) >> \o Payload(70, 2),
       from  |-> Stranger],
      \* begins with 0x80
      [bytes |-> << Lit(128) >> \o Payload(4, 1), from |-> Peer],
      \* begins with 0x80, from another port
      [bytes |-> << Lit(128) >> \o Payload(4, 1), from |-> Stranger],
      \* a packet, then a separator with the first bit set
      [bytes |-> << Lit(3) >> \o Payload(3, 1) \o << Lit(193) >> \o Payload(5, 2),
       from  |-> Peer],
      \* the separator declares 100 bytes and 80 follow
      [bytes |-> << Lit(64), Lit(100) >> \o Payload(80, 1), from |-> Peer],
      \* a packet, then a separator that declares 10 bytes and 4 follow
      [bytes |-> << Lit(3) >> \o Payload(3, 1) \o << Lit(10) >> \o Payload(4, 2),
       from  |-> Peer],
      \* the separator declares 200 bytes and 80 follow
      [bytes |-> << Lit(64), Lit(200) >> \o Payload(80, 1), from |-> Peer],
      \* the separator declares 1600 bytes and 80 follow
      [bytes |-> << Lit(70), Lit(64) >> \o Payload(80, 1), from |-> Peer] }

\* lines 676-677 with the options of LoopOption
InitLoop ==
    /\ charSigned \in BOOLEAN
    /\ compress_headers = 0
    /\ status = "none"
    /\ limit_numpackets_tap =
          LimitNumpackets(LoopOption.n, LoopOption.b, LoopOption.t, LoopOption.p)
    /\ size_threshold = LoopOption.b
    /\ timeout = LoopOption.t
    /\ period = LoopOption.p
    /\ pc = "select"
    /\ now = 0
    /\ time_last_sent_in_microsec = now
    /\ time_in_microsec = now
    /\ size_packet_read_from_tap = 0
    /\ packet_read_from_tap = << >>
    /\ predicted_size_muxed_packet = 0
    /\ muxed_packet = << >>
    /\ size_muxed_packet = 0
    /\ num_pkts_stored_from_tap = 0
    /\ tap2net = 0
    /\ net2tap = 0
    /\ buffer_from_net = << >>
    /\ nread_from_net = 0
    /\ CodecIdle
    /\ LoopIdle
    /\ ticks = 0
    /\ lastNet = NoNet
    /\ sent = << >>
    /\ tapOut = << >>
    /\ accepted = << >>
    /\ pending = << >>
    /\ event = "start"

\* a packet arrives at the tun/tap device
TapArrives ==
    /\ pc # "exit"
    /\ Len(tap_fd) < MaxQueue
    /\ \E len \in LoopTapLens : tap_fd' = Append(tap_fd, len)
    /\ event' = "arrival"
    /\ UNCHANGED << config, status, pc, now, time_last_sent_in_microsec, time_in_microsec,
                    size_packet_read_from_tap, packet_read_from_tap,
                    predicted_size_muxed_packet, muxed_packet, size_muxed_packet,
                    num_pkts_stored_from_tap, tap2net, net2tap, buffer_from_net,
                    nread_from_net, codecVars, ticks, rd_set, net_fd, remote, sent,
                    tapOut, accepted, pending >>

\* one of the datagrams ds arrives at the socket
NetArrives(ds) ==
    /\ pc # "exit"
    /\ Len(net_fd) < MaxQueue
    /\ \E d \in ds : net_fd' = Append(net_fd, d)
    /\ event' = "arrival"
    /\ UNCHANGED << config, status, pc, now, time_last_sent_in_microsec, time_in_microsec,
                    size_packet_read_from_tap, packet_read_from_tap,
                    predicted_size_muxed_packet, muxed_packet, size_muxed_packet,
                    num_pkts_stored_from_tap, tap2net, net2tap, buffer_from_net,
                    nread_from_net, codecVars, ticks, rd_set, tap_fd, remote, sent,
                    tapOut, accepted, pending >>

\* a microsecond passes
Tick ==
    /\ pc # "exit"
    /\ now < MaxNow
    /\ now' = now + 1
    /\ UNCHANGED << config, status, pc, time_last_sent_in_microsec, time_in_microsec,
                    size_packet_read_from_tap, packet_read_from_tap,
                    predicted_size_muxed_packet, muxed_packet, size_muxed_packet,
                    num_pkts_stored_from_tap, tap2net, net2tap, buffer_from_net,
                    nread_from_net, codecVars, ticks, loopVars, sent, tapOut,
                    accepted, pending, event >>

\* the descriptors that have something to read
Readable ==
    (IF net_fd # << >> THEN {"net_fd"} ELSE {})
    \cup (IF tap_fd # << >> THEN {"tap_fd"} ELSE {})

\* lines 678-707: select() returns the descriptors that are ready, at once if there
\* are any, and otherwise none when the time left of the period has passed (an
\* arrival before that is a step of TapArrives or NetArrives before this one)
Select ==
    /\ pc = "select"
    /\ time_in_microsec' = now
    /\ rd_set' = Readable
    /\ now' = IF Readable # {}
              THEN now
              ELSE Min(now + MicrosecondsLeft(period, now, time_last_sent_in_microsec),
                       MaxNow)
    /\ pc' = "ready"
    /\ event' = "select"
    /\ UNCHANGED << config, status, time_last_sent_in_microsec, size_packet_read_from_tap,
                    packet_read_from_tap, predicted_size_muxed_packet, muxed_packet,
                    size_muxed_packet, num_pkts_stored_from_tap, tap2net, net2tap,
                    buffer_from_net, nread_from_net, codecVars, ticks, net_fd, tap_fd,
                    remote, sent, tapOut, accepted, pending >>

\* NetFirst with the branches in the other order: tap_fd is tested before net_fd
TapFirst(rd) ==
    IF "tap_fd" \in rd THEN "tap" ELSE IF "net_fd" \in rd THEN "net" ELSE "period"

\* lines 712, 946 and 1172: the branch that runs for the descriptors select() reported
NetFirst(rd) ==
    IF "net_fd" \in rd THEN "net" ELSE IF "tap_fd" \in rd THEN "tap" ELSE "period"

\* FromMuxPort that takes every datagram as a multiplexed one
FromAnyPort(src) == TRUE

\* line 725: the datagram comes from the multiplexing port
FromMuxPort(src) == PORT = src.port

\* lines 712-941: one datagram is received; it is demultiplexed if it comes from the
\* multiplexing port and written as it is to tun/tap otherwise
LoopNetBranch ==
    /\ pc = "ready"
    /\ NetFirst(rd_set) = "net"
    /\ net_fd # << >>
    /\ net_fd' = Tail(net_fd)
    /\ remote' = Head(net_fd).from
    /\ net2tap' = Min(net2tap + 1, MaxCount)
    /\ buffer_from_net' = Refill(buffer_from_net, Received(Head(net_fd).bytes))
    /\ nread_from_net' = BufLen(Received(Head(net_fd).bytes))
    /\ IF FromMuxPort(Head(net_fd).from)
       THEN \E intact \in (IF CopiesPastEnd(charSigned, buffer_from_net',
                                            nread_from_net', 0)
                           THEN BOOLEAN ELSE {TRUE}) :
               lastNet' = [k |-> 0, muxed |-> TRUE]
                          @@ Demux(charSigned, buffer_from_net', nread_from_net', 0,
                                   intact)
       ELSE lastNet' = [k |-> 0, muxed |-> FALSE, exit |-> FALSE,
                        writes |-> << Take(buffer_from_net', nread_from_net') >>,
                        log |-> << "native" >>]
    /\ tapOut' = lastNet'.writes
    /\ pc' = IF lastNet'.exit THEN "exit" ELSE "select"
    /\ event' = "net"
    /\ UNCHANGED << config, status, now, time_last_sent_in_microsec, time_in_microsec,
                    size_packet_read_from_tap, packet_read_from_tap,
                    predicted_size_muxed_packet, muxed_packet, size_muxed_packet,
                    num_pkts_stored_from_tap, tap2net, packet_length, position,
                    ticks, rd_set, tap_fd, sent, accepted, pending >>

\* lines 946-1166 (no header compression): one packet is read from tun/tap; the
\* stored packets are sent first if the MTU would be passed, the packet is stored,
\* and the stored packets are sent if a trigger condition holds
LoopTapBranch ==
    /\ pc = "ready"
    /\ NetFirst(rd_set) = "tap"
    /\ tap_fd # << >>
    /\ tap_fd' = Tail(tap_fd)
    /\ tap2net' = Min(tap2net + 1, MaxCount)
    /\ LET len   == Head(tap_fd)
           pkt   == Payload(len, 1)
           pred  == PredictedSize(size_muxed_packet, len)
           size0 == IF MtuReached(pred) THEN 0 ELSE size_muxed_packet
           num0  == IF MtuReached(pred) THEN 0 ELSE num_pkts_stored_from_tap
           buf0  == IF MtuReached(pred) THEN << >> ELSE muxed_packet
           pend0 == IF MtuReached(pred) THEN << >> ELSE pending
           size1 == StoredSize(size0, len)
           buf1  == StoreAt(buf0, size0, Separator(len) \o pkt)
           diff  == now - time_last_sent_in_microsec
           fire  == Triggered(num0 + 1, size1, diff)
       IN  /\ size_packet_read_from_tap' = len
           /\ packet_read_from_tap' = pkt
           /\ accepted' = << pkt >>
           /\ predicted_size_muxed_packet' = pred
           /\ time_in_microsec' = now
           /\ sent' = IF fire
                      THEN << [ bytes    |-> Datagram(buf1, size1),
                                size     |-> size1,
                                npkts    |-> num0 + 1,
                                reason   |-> TriggerTags(num0 + 1, size1, diff),
                                at       |-> now,
                                payloads |-> Append(pend0, pkt) ] >>
                      ELSE IF MtuReached(pred)
                      THEN << Sending({"MTU"}) >>
                      ELSE sent
           /\ size_muxed_packet' = IF fire THEN 0 ELSE size1
           /\ num_pkts_stored_from_tap' = IF fire THEN 0 ELSE num0 + 1
           /\ muxed_packet' = IF fire THEN << >> ELSE buf1
           /\ pending' = IF fire THEN << >> ELSE Append(pend0, pkt)
           /\ time_last_sent_in_microsec' =
                 IF fire THEN now ELSE time_last_sent_in_microsec
    /\ pc' = "select"
    /\ event' = "tap"
    /\ UNCHANGED << config, status, now, net2tap, buffer_from_net, nread_from_net, codecVars,
                    ticks, rd_set, net_fd, remote, tapOut >>

\* lines 1172-1198: no descriptor is ready; the stored packets are sent and the
\* period starts again
LoopPeriod ==
    /\ pc = "ready"
    /\ NetFirst(rd_set) = "period"
    /\ time_in_microsec' = now
    /\ ticks' = Min(ticks + 1, MaxCount)
    /\ IF num_pkts_stored_from_tap > 0
       THEN /\ sent' = << Sending({"period"}) >>
            /\ size_muxed_packet' = 0
            /\ num_pkts_stored_from_tap' = 0
            /\ muxed_packet' = << >>
            /\ pending' = << >>
       ELSE UNCHANGED << sent, size_muxed_packet, num_pkts_stored_from_tap,
                         muxed_packet, pending >>
    /\ time_last_sent_in_microsec' = now
    /\ pc' = "select"
    /\ event' = "period"
    /\ UNCHANGED << config, status, now, size_packet_read_from_tap, packet_read_from_tap,
                    predicted_size_muxed_packet, tap2net, net2tap, buffer_from_net,
                    nread_from_net, codecVars, rd_set, net_fd, tap_fd, remote,
                    tapOut, accepted >>

\* one step of the program
LoopStep ==
    \/ Select
    \/ LoopNetBranch
    \/ LoopTapBranch
    \/ LoopPeriod

NextLoop ==
    \/ Tick
    \/ TapArrives
    \/ NetArrives(LoopArrivals)
    \/ Select
    \/ LoopNetBranch
    \/ LoopTapBranch
    \/ LoopPeriod

SpecLoop == InitLoop /\ [][NextLoop]_vars

\* the program goes on from one of its positions to the next
Running ==
    /\ pc \in {"select", "ready"}
    /\ pc' \in {"select", "ready", "exit"}

\* the program keeps running: while(1) has no wait other than select(), which
\* returns when a descriptor is ready or the time left has passed, and the branch
\* select() leads to always has its input.  The steps of NextLoop that change pc
\* are the steps of LoopStep, and one of them is possible whenever pc is "select"
\* or "ready", so this is weak fairness of LoopStep.
SpecLoopFair == SpecLoop /\ WF_pc(Running)

NextNet ==
    \/ NetArrives(Arrivals)
    \/ Select
    \/ LoopNetBranch
    \/ LoopPeriod

SpecNet == InitLoop /\ [][NextNet]_vars

----------------------------------------------------------------------------
(* The main loop with the result of every call as an input: select(),           *)
(* recvfrom(), read(), write() and sendto() succeed or fail, and with -r the    *)
(* ROHC library compresses and decompresses with one of its results.  As in    *)
(* Spec, the branches are given their input directly: select() returned with   *)
(* that descriptor ready.  Here sent, tapOut and lastNet hold what the last    *)
(* branch did.                                                                  *)

\* lengths of the packets that arrive at the tun/tap device
CallsTapLens == {50, 800}

\* the datagrams that arrive at the socket: two packets, from the peer and from
\* another port
CallsArrivals ==
    [ bytes : { << Lit(3) >> \o Payload(3, 1) \o << Lit(64), Lit(70) >> \o Payload(70, 2) },
      from  : { Peer, Stranger } ]

\* lines 676-677 with the options of LoopOption, with -r or without
InitCalls ==
    /\ charSigned \in BOOLEAN
    /\ compress_headers \in {0, 1}
    /\ status = "none"
    /\ limit_numpackets_tap =
          LimitNumpackets(LoopOption.n, LoopOption.b, LoopOption.t, LoopOption.p)
    /\ size_threshold = LoopOption.b
    /\ timeout = LoopOption.t
    /\ period = LoopOption.p
    /\ pc = "select"
    /\ now = 0
    /\ time_last_sent_in_microsec = now
    /\ time_in_microsec = now
    /\ size_packet_read_from_tap = 0
    /\ packet_read_from_tap = << >>
    /\ predicted_size_muxed_packet = 0
    /\ muxed_packet = << >>
    /\ size_muxed_packet = 0
    /\ num_pkts_stored_from_tap = 0
    /\ tap2net = 0
    /\ net2tap = 0
    /\ buffer_from_net = << >>
    /\ nread_from_net = 0
    /\ CodecIdle
    /\ LoopIdle
    /\ ticks = 0
    /\ lastNet = NoNet
    /\ sent = << >>
    /\ tapOut = << >>
    /\ accepted = << >>
    /\ pending = << >>
    /\ event = "start"

\* lines 698-707: select() fails; the loop starts again if a signal interrupted
\* it and the process ends otherwise
SelectFails ==
    /\ pc = "select"
    /\ time_in_microsec' = now
    /\ \E errno \in {"EINTR", "EBADF"} :
          IF errno = "EINTR"
          THEN pc' = "select" /\ event' = "eintr"
          ELSE pc' = "exit" /\ event' = "select_failed"
    /\ UNCHANGED << config, status, now, time_last_sent_in_microsec,
                    size_packet_read_from_tap, packet_read_from_tap,
                    predicted_size_muxed_packet, muxed_packet, size_muxed_packet,
                    num_pkts_stored_from_tap, tap2net, net2tap, buffer_from_net,
                    nread_from_net, codecVars, ticks, loopVars, sent, tapOut,
                    accepted, pending >>

\* line 341: a value stored in a uint16_t
Uint16(x) == x % 65536

\* line 716: the test for a failed recvfrom(), made on nread_from_net
RecvfromFailed(nread) == nread = -1

\* n bytes of memory this program never stored to
Indeterminate(n) == << [k |-> 0, off |-> 0, len |-> n, bad |-> TRUE] >>

\* the results rohc_decompress3() can give: the status and whether ip_packet_d
\* is empty (feedback only or a segment that is not the last one give
\* ROHC_STATUS_OK and no packet)
DecompressResults ==
    { [status |-> "ROHC_STATUS_OK", empty |-> FALSE],
      [status |-> "ROHC_STATUS_OK", empty |-> TRUE],
      [status |-> "ROHC_STATUS_ERROR", empty |-> TRUE] }

\* one result for each of n packets
ResultsFor(compress, n) ==
    IF compress = 1
    THEN [1..n -> DecompressResults]
    ELSE { [i \in 1..n |-> [status |-> status, empty |-> TRUE]] }

\* WritesDemuxed with the status of the decompression left out
WritesWhatever(compress, st) == TRUE

\* line 917: the demultiplexed packet is written to tun/tap
WritesDemuxed(compress, st) ==
    (compress = 0) \/ ((compress = 1) /\ (st = "ROHC_STATUS_OK"))

\* lines 801-925 for the i-th demultiplexed packet p and the result res of
\* rohc_decompress3(): the bytes demuxed_packet holds at line 917 (the
\* decompressed packet, or p as it was when nothing was copied over it), whether
\* cwrite() is called with them, and the records of the log
Unpacked(compress, p, res, i) ==
    LET ok == res.status = "ROHC_STATUS_OK"
    IN  [ rohc   |-> p,
          status |-> res.status,
          empty  |-> res.empty,
          packet |-> IF compress = 1 /\ ok /\ ~res.empty
                     THEN Payload(BufLen(p) + 30, 200 + i)
                     ELSE p,
          cwrite |-> IF WritesDemuxed(compress, res.status) THEN "ok" ELSE "none",
          log    |-> (IF compress = 0 \/ (ok /\ ~res.empty) THEN << >>
                      ELSE IF ok THEN << "ROHC_feedback" >>
                      ELSE << "decomp_failed" >>)
                     \o (IF WritesDemuxed(compress, res.status)
                         THEN << "demuxed" >> ELSE << >>) ]

\* lines 736-928 for the demultiplexed packets ps with the results rs of the
\* decompressor, when the failAt-th call of cwrite() fails (0: none does): what
\* was done with each packet up to the end of the loop or of the process
Unpack(compress, ps, rs, failAt) ==
    LET upto[i \in 0..Len(ps)] ==
            IF i = 0 THEN [done |-> << >>, calls |-> 0, exit |-> FALSE]
            ELSE IF upto[i - 1].exit THEN upto[i - 1]
            ELSE LET u     == Unpacked(compress, ps[i], rs[i], i)
                     calls == upto[i - 1].calls + (IF u.cwrite = "ok" THEN 1 ELSE 0)
                     fails == u.cwrite = "ok" /\ calls = failAt
                 IN  [ done  |-> Append(upto[i - 1].done,
                                        IF fails THEN [u EXCEPT !.cwrite = "failed"]
                                        ELSE u),
                       calls |-> calls,
                       exit  |-> fails ]
    IN  upto[Len(ps)]

\* the packets the calls of cwrite() wrote to tun/tap
RECURSIVE Written(_)
Written(done) ==
    IF done = << >> THEN << >>
    ELSE (IF Head(done).cwrite = "ok" THEN << Head(done).packet >> ELSE << >>)
         \o Written(Tail(done))

\* lines 712-941 with the results of recvfrom(), of the decompressor and of
\* cwrite() (lines 129-138: the process ends when write() fails).  When
\* recvfrom() fails nothing is stored in buffer_from_net or remote, and
\* nread_from_net bytes at buffer_from_net are taken as a datagram: the bytes of
\* earlier datagrams and memory outside the array
CallsNetBranch ==
    /\ pc = "select"
    /\ net2tap' = Min(net2tap + 1, MaxCount)
    /\ sent' = << >>
    /\ \E d \in CallsArrivals, failed \in BOOLEAN :
       LET ret == IF failed THEN -1 ELSE BufLen(Received(d.bytes))
       IN
          /\ nread_from_net' = Uint16(ret)
          /\ IF ret # -1
             THEN /\ remote' = d.from
                  /\ buffer_from_net' = Refill(buffer_from_net, Received(d.bytes))
                  /\ IF FromMuxPort(remote')
                     THEN \E r \in {Demux(charSigned,
                                            Refill(buffer_from_net, Received(d.bytes)),
                                            Uint16(ret), 0, TRUE)} :
                              \E rs \in ResultsFor(compress_headers, Len(r.writes)),
                                 failAt \in 0..Len(r.writes) :
                                 \E u \in {Unpack(compress_headers, r.writes, rs,
                                                   failAt)} :
                                     /\ failAt <= u.calls
                                     /\ Len(u.done) = Len(r.writes) \/ u.exit
                                     /\ lastNet' =
                                           [ recvfrom |-> "ok", muxed |-> TRUE,
                                             payloads |-> r.writes, done |-> u.done,
                                             log |-> r.log, exit |-> u.exit ]
                                     /\ tapOut' = Written(u.done)
                     ELSE \E wfailed \in BOOLEAN :
                             /\ lastNet' =
                                   [ recvfrom |-> "ok", muxed |-> FALSE,
                                     payloads |-> << >>, done |-> << >>,
                                     log |-> << "native" >>, exit |-> wfailed ]
                             /\ tapOut' =
                                   IF wfailed THEN << >>
                                   ELSE << Take(buffer_from_net', nread_from_net') >>
             ELSE /\ UNCHANGED << remote, buffer_from_net >>
                  /\ \E wrote \in BOOLEAN, ended \in BOOLEAN :
                        /\ FromMuxPort(remote) \/ wrote \/ ended
                        /\ lastNet' =
                              [ recvfrom |-> "failed", muxed |-> FromMuxPort(remote),
                                payloads |-> << >>, done |-> << >>,
                                log |-> IF RecvfromFailed(nread_from_net')
                                        THEN << "recvfrom" >> ELSE << >>,
                                exit |-> ended ]
                        /\ tapOut' =
                              IF wrote
                              THEN << Cat(buffer_from_net,
                                          Indeterminate(nread_from_net'
                                                        - BufLen(buffer_from_net))) >>
                              ELSE << >>
    /\ status' = IF compress_headers = 1 /\ lastNet'.done # << >>
                 THEN lastNet'.done[Len(lastNet'.done)].status
                 ELSE status
    /\ pc' = IF lastNet'.exit THEN "exit" ELSE "select"
    /\ event' = "net"
    /\ UNCHANGED << config, now, time_last_sent_in_microsec, time_in_microsec,
                    size_packet_read_from_tap, packet_read_from_tap,
                    predicted_size_muxed_packet, muxed_packet, size_muxed_packet,
                    num_pkts_stored_from_tap, tap2net, packet_length, position,
                    ticks, rd_set, net_fd, tap_fd, accepted, pending >>

\* the results rohc_compress4() can give for a packet of len bytes: the status and
\* rohc_packet.len, which rohc_buf_reset() had set to 0 before the call
CompressResults(len) ==
    { [status |-> "ROHC_STATUS_OK", len |-> len - 30] }
    \cup [ status : {"ROHC_STATUS_SEGMENT", "ROHC_STATUS_ERROR"}, len : {0, 20} ]

\* the bytes of rohc_packet after the k-th packet read from tun/tap was given to
\* the compressor
RohcPacket(len, k) == Payload(len, 100 + k)

\* SendtoGoesOn with the process ending when sendto() fails, as cread() and
\* cwrite() do
SendtoExits(ok) == ok

\* lines 1065, 1147 and 1183: whatever sendto() returns, the statements after it run
SendtoGoesOn(ok) == TRUE

\* lines 946-1166 with the results of cread() (lines 114-123: the process ends
\* when read() fails), of the compressor and of sendto(); the datagrams go to the
\* address and port in remote
CallsTapBranch ==
    /\ pc = "select"
    /\ tapOut' = << >>
    /\ lastNet' = NoNet
    /\ \E nread \in CallsTapLens \cup {-1} :
          IF nread < 0
          THEN /\ pc' = "exit"
               /\ event' = "cread_failed"
               /\ sent' = << >>
               /\ UNCHANGED << status, tap2net, size_packet_read_from_tap,
                               packet_read_from_tap, accepted,
                               predicted_size_muxed_packet, time_in_microsec,
                               size_muxed_packet, num_pkts_stored_from_tap,
                               muxed_packet, pending, time_last_sent_in_microsec >>
          ELSE /\ tap2net' = Min(tap2net + 1, MaxCount)
               /\ event' = "tap"
               /\ \E c \in (IF compress_headers = 1 THEN CompressResults(nread)
                            ELSE {[status |-> status, len |-> nread]}),
                     ok1 \in BOOLEAN, ok2 \in BOOLEAN :
                     LET len   == Uint16(c.len)
                         pkt   == IF compress_headers = 1 THEN RohcPacket(len, 1)
                                  ELSE Payload(len, 1)
                         pred  == PredictedSize(size_muxed_packet, len)
                         size0 == IF MtuReached(pred) THEN 0 ELSE size_muxed_packet
                         num0  == IF MtuReached(pred) THEN 0
                                  ELSE num_pkts_stored_from_tap
                         buf0  == IF MtuReached(pred) THEN << >> ELSE muxed_packet
                         pend0 == IF MtuReached(pred) THEN << >> ELSE pending
                         size1 == StoredSize(size0, len)
                         buf1  == StoreAt(buf0, size0, Separator(len) \o pkt)
                         diff  == now - time_last_sent_in_microsec
                         fire  == Triggered(num0 + 1, size1, diff)
                     IN  /\ MtuReached(pred) \/ ok1
                         /\ fire \/ ok2
                         /\ status' = c.status
                         /\ size_packet_read_from_tap' = len
                         /\ packet_read_from_tap' = pkt
                         /\ accepted' = << Payload(nread, 1) >>
                         /\ predicted_size_muxed_packet' = pred
                         /\ time_in_microsec' = now
                         /\ sent' =
                               (IF MtuReached(pred)
                                THEN << [ok |-> ok1, to |-> remote]
                                        @@ Sending({"MTU"}) >>
                                ELSE << >>)
                               \o (IF fire
                                   THEN << [ bytes    |-> Datagram(buf1, size1),
                                             size     |-> size1,
                                             npkts    |-> num0 + 1,
                                             reason   |-> TriggerTags(num0 + 1, size1,
                                                                      diff),
                                             at       |-> now,
                                             payloads |-> Append(pend0, pkt),
                                             ok       |-> ok2,
                                             to       |-> remote ] >>
                                   ELSE << >>)
                         /\ size_muxed_packet' = IF fire THEN 0 ELSE size1
                         /\ num_pkts_stored_from_tap' = IF fire THEN 0 ELSE num0 + 1
                         /\ muxed_packet' = IF fire THEN << >> ELSE buf1
                         /\ pending' = IF fire THEN << >> ELSE Append(pend0, pkt)
                         /\ time_last_sent_in_microsec' =
                               IF fire THEN now ELSE time_last_sent_in_microsec
                         /\ pc' = IF \A i \in 1..Len(sent') : SendtoGoesOn(sent'[i].ok)
                                  THEN "select" ELSE "exit"
    /\ UNCHANGED << config, loopVars, now, net2tap, buffer_from_net, nread_from_net,
                    packet_length, position, ticks >>

\* lines 1172-1198 with the result of sendto()
CallsPeriod ==
    /\ pc = "select"
    /\ now' = Min(now + MicrosecondsLeft(period, now, time_last_sent_in_microsec),
                  MaxNow)
    /\ time_in_microsec' = now'
    /\ ticks' = Min(ticks + 1, MaxCount)
    /\ tapOut' = << >>
    /\ lastNet' = NoNet
    /\ IF num_pkts_stored_from_tap > 0
       THEN /\ \E ok \in BOOLEAN :
                  sent' = << [ok |-> ok, at |-> now', to |-> remote]
                             @@ Sending({"period"}) >>
            /\ size_muxed_packet' = 0
            /\ num_pkts_stored_from_tap' = 0
            /\ muxed_packet' = << >>
            /\ pending' = << >>
       ELSE /\ sent' = << >>
            /\ UNCHANGED << size_muxed_packet, num_pkts_stored_from_tap,
                            muxed_packet, pending >>
    /\ time_last_sent_in_microsec' = now'
    /\ pc' = IF \A i \in 1..Len(sent') : SendtoGoesOn(sent'[i].ok)
             THEN "select" ELSE "exit"
    /\ event' = "period"
    /\ UNCHANGED << config, status, loopVars, size_packet_read_from_tap,
                    packet_read_from_tap, predicted_size_muxed_packet, tap2net,
                    net2tap, buffer_from_net, nread_from_net, packet_length, position,
                    accepted >>

NextCalls ==
    \/ SelectFails
    \/ CallsNetBranch
    \/ CallsTapBranch
    \/ CallsPeriod

SpecCalls == InitCalls /\ [][NextCalls]_vars

----------------------------------------------------------------------------
(* The demultiplexing loop on its own, one iteration at a time: a datagram from *)
(* the multiplexing port is in buffer_from_net and position goes through it.    *)
(* lastNet holds what the last iteration did: the record it logged, the highest *)
(* index of buffer_from_net it read and of demuxed_packet it stored to.         *)

MaxChunks == 3

\* what a datagram is made of: a separator and the bytes that follow it
ParseChunks ==
    { \* a packet of no bytes
      << Lit(0) >>,
      \* a packet of 3 bytes, one-byte separator
      << Lit(3) >> \o Payload(3, 1),
      \* a packet of 70 bytes, two-byte separator
      << Lit(64), Lit(70) >> \o Payload(70, 2),
      \* a separator with the first bit set
      << Lit(128) >>,
      \* the separator declares 10 bytes and 4 follow
      << Lit(10) >> \o Payload(4, 3),
      \* the first byte of a two-byte separator
      << Lit(64) >>,
      \* the separator declares 1600 bytes and 80 follow
      << Lit(70), Lit(64) >> \o Payload(80, 4) }

\* the datagrams of n chunks
RECURSIVE ChunksOf(_)
ChunksOf(n) ==
    IF n = 0 THEN { << >> }
    ELSE { c \o d : c \in ParseChunks, d \in ChunksOf(n - 1) }

\* the datagrams received: one to MaxChunks chunks
ParseDatagrams == UNION { ChunksOf(n) : n \in 1..MaxChunks }

\* lines 715-734: a datagram from the multiplexing port has been received into a
\* buffer_from_net that held nothing before, and position is 0
InitParse ==
    /\ charSigned \in BOOLEAN
    /\ compress_headers = 0
    /\ status = "none"
    /\ limit_numpackets_tap = 1
    /\ size_threshold = MAXTHRESHOLD
    /\ timeout = MAXTIMEOUT
    /\ period = MAXTIMEOUT
    /\ pc = "demux"
    /\ now = 0
    /\ time_last_sent_in_microsec = 0
    /\ time_in_microsec = 0
    /\ size_packet_read_from_tap = 0
    /\ packet_read_from_tap = << >>
    /\ predicted_size_muxed_packet = 0
    /\ muxed_packet = << >>
    /\ size_muxed_packet = 0
    /\ num_pkts_stored_from_tap = 0
    /\ tap2net = 0
    /\ net2tap = 1
    /\ \E d \in ParseDatagrams :
          /\ buffer_from_net = d
          /\ nread_from_net = BufLen(d)
    /\ CodecIdle
    /\ LoopIdle
    /\ ticks = 0
    /\ lastNet = NoNet
    /\ sent = << >>
    /\ tapOut = << >>
    /\ accepted = << >>
    /\ pending = << >>
    /\ event = "recvfrom"

\* AfterBadSeparator with position left where the bad separator is
AfterBadSeparatorStays(pos, nread) == pos

\* line 742: position after a bad separator
AfterBadSeparator(pos, nread) == nread

\* lines 736-928 (no header compression): one iteration of the while.  The copy
\* of lines 784-787 runs before the length is tested at line 790; when it stores
\* past the end of demuxed_packet the stores may destroy what the build placed
\* there and end the process (as in Demux)
DemuxIteration ==
    /\ pc = "demux"
    /\ position < nread_from_net
    /\ IF BadSeparator(buffer_from_net, position)
       THEN /\ position' = AfterBadSeparator(position, nread_from_net)
            /\ lastNet' = [ log |-> << "bad_separator" >>, exit |-> FALSE,
                            readMax |-> position, writeMax |-> -1 ]
            /\ pc' = "demux"
            /\ UNCHANGED << packet_length, tapOut >>
       ELSE LET len   == SeparatorLength(charSigned, buffer_from_net, position)
                start == SeparatorEnd(buffer_from_net, position)
                end   == IF len > 0 THEN start + len ELSE start
            IN  \E intact \in (IF len > MTU THEN BOOLEAN ELSE {TRUE}) :
                   LET ended == \/ end > nread_from_net /\ len > MTU /\ ~intact
                                \/ end <= nread_from_net /\ len < 0
                       fits  == end <= nread_from_net /\ len >= 0
                   IN  /\ packet_length' = len
                       /\ position' = end
                       /\ lastNet' =
                             [ log |-> IF end > nread_from_net /\ ~ended
                                       THEN << "demux_bad_length" >> ELSE << >>,
                               exit |-> ended,
                               readMax |-> end - 1,
                               writeMax |-> len - 1 ]
                       /\ tapOut' =
                             IF fits
                             THEN Append(tapOut,
                                         PastEnd(Copied(buffer_from_net, start, len),
                                                 MTU, intact))
                             ELSE tapOut
                       /\ pc' = IF ended THEN "exit" ELSE "demux"
    /\ event' = "iteration"
    /\ UNCHANGED << config, status, loopVars, now, time_last_sent_in_microsec,
                    time_in_microsec, size_packet_read_from_tap, packet_read_from_tap,
                    predicted_size_muxed_packet, muxed_packet, size_muxed_packet,
                    num_pkts_stored_from_tap, tap2net, net2tap, buffer_from_net,
                    nread_from_net, ticks, sent, accepted, pending >>

\* line 736: position has reached nread_from_net and the while ends
DemuxDone ==
    /\ pc = "demux"
    /\ position >= nread_from_net
    /\ pc' = "select"
    /\ event' = "parsed"
    /\ UNCHANGED << config, status, loopVars, now, time_last_sent_in_microsec,
                    time_in_microsec, size_packet_read_from_tap, packet_read_from_tap,
                    predicted_size_muxed_packet, muxed_packet, size_muxed_packet,
                    num_pkts_stored_from_tap, tap2net, net2tap, buffer_from_net,
                    nread_from_net, codecVars, ticks, sent, tapOut, accepted,
                    pending >>

NextParse ==
    \/ DemuxIteration
    \/ DemuxDone

SpecParse == InitParse /\ [][NextParse]_vars

----------------------------------------------------------------------------
(* The start of main() on its own: the options are read and the packet limit is *)
(* set from them.                                                               *)

\* the values given with -n (0: not given), -b, -t and -P
StartOptions ==
    [ n : {0, 1, 3, MAXPKTS},
      b : {200, MAXTHRESHOLD, MTU},
      t : {2, MAXTIMEOUT, MAXTIMEOUT + 1},
      p : {3, MAXTIMEOUT, MAXTIMEOUT + 1} ]

\* lines 352-359 and 445-456: the options have been read
InitStart ==
    /\ charSigned \in BOOLEAN
    /\ compress_headers = 0
    /\ status = "none"
    /\ \E o \in StartOptions :
          /\ limit_numpackets_tap = o.n
          /\ size_threshold = o.b
          /\ timeout = o.t
          /\ period = o.p
    /\ pc = "options"
    /\ now = 0
    /\ time_last_sent_in_microsec = now
    /\ time_in_microsec = now
    /\ size_packet_read_from_tap = 0
    /\ packet_read_from_tap = << >>
    /\ predicted_size_muxed_packet = 0
    /\ muxed_packet = << >>
    /\ size_muxed_packet = 0
    /\ num_pkts_stored_from_tap = 0
    /\ tap2net = 0
    /\ net2tap = 0
    /\ buffer_from_net = << >>
    /\ nread_from_net = 0
    /\ CodecIdle
    /\ LoopIdle
    /\ ticks = 0
    /\ lastNet = NoNet
    /\ sent = << >>
    /\ tapOut = << >>
    /\ accepted = << >>
    /\ pending = << >>
    /\ event = "start"

\* lines 507-514: the packet limit is set and the time of the last sending is taken
SetTriggers ==
    /\ pc = "options"
    /\ limit_numpackets_tap' =
          LimitNumpackets(limit_numpackets_tap, size_threshold, timeout, period)
    /\ time_last_sent_in_microsec' = now
    /\ pc' = "select"
    /\ event' = "options"
    /\ UNCHANGED << charSigned, size_threshold, timeout, period, compress_headers,
                    status, loopVars, now,
                    time_in_microsec, size_packet_read_from_tap, packet_read_from_tap,
                    predicted_size_muxed_packet, muxed_packet, size_muxed_packet,
                    num_pkts_stored_from_tap, tap2net, net2tap, buffer_from_net,
                    nread_from_net, codecVars, ticks, sent, tapOut, accepted,
                    pending >>

NextStart == SetTriggers

SpecStart == InitStart /\ [][NextStart]_vars

----------------------------------------------------------------------------
(* Reference definitions the claims are stated with *)

\* the number of separator bytes of a payload of len bytes
sep_len(len) == IF len < 64 THEN 1 ELSE 2

\* the largest length two separator bytes can hold: six bits and eight bits
MaxSepLength == (64 * 256) - 1

\* the bytes of a payload with its separator in front
Framed(p) ==
    Cat(IF BufLen(p) < 64
        THEN << Lit(BufLen(p)) >>
        ELSE << Lit(64 + (BufLen(p) \div 256)), Lit(BufLen(p) % 256) >>,
        p)

\* the bundle that carries the payloads ps in order
RECURSIVE Bundle(_)
Bundle(ps) == IF ps = << >> THEN << >> ELSE Cat(Framed(Head(ps)), Bundle(Tail(ps)))

\* the sum over the payloads ps of sep_len(p) + |p|
RECURSIVE BundleSize(_)
BundleSize(ps) ==
    IF ps = << >> THEN 0
    ELSE sep_len(BufLen(Head(ps))) + BufLen(Head(ps)) + BundleSize(Tail(ps))

\* all the payloads of the bundles ds, in order
RECURSIVE PayloadsOf(_)
PayloadsOf(ds) == IF ds = << >> THEN << >> ELSE Head(ds).payloads \o PayloadsOf(Tail(ds))

\* the steps that send a bundle
FlushEvents == {"mtuflush", "trigflush", "periodflush"}

\* the last sendto()
LastSent == sent[Len(sent)]

\* whether buf is a concatenation of (separator, payload) pairs
RECURSIVE WellFramed(_)
WellFramed(buf) ==
    \/ buf = << >>
    \/ LET x   == BufAt(buf, 0)
           hdr == IF x < 64 THEN 1 ELSE 2
           len == IF x < 64 THEN x ELSE ((x % 64) * 256) + BufAt(buf, 1)
       IN  /\ x < 128
           /\ hdr + len <= BufLen(buf)
           /\ WellFramed(Drop(buf, hdr + len))

\* the payloads a well framed buf carries, in order
RECURSIVE Carried(_)
Carried(buf) ==
    IF buf = << >> THEN << >>
    ELSE LET x   == BufAt(buf, 0)
             hdr == IF x < 64 THEN 1 ELSE 2
             len == IF x < 64 THEN x ELSE ((x % 64) * 256) + BufAt(buf, 1)
         IN  << Take(Drop(buf, hdr), len) >> \o Carried(Drop(buf, hdr + len))

\* all the payloads the bundles ds carry, in order
RECURSIVE CarriedBy(_)
CarriedBy(ds) == IF ds = << >> THEN << >> ELSE Carried(Head(ds).bytes) \o CarriedBy(Tail(ds))

----------------------------------------------------------------------------
(* Claims *)

\* C1: every datagram the send side emits as a bundle, whatever the reason of the
\* flush, has length at most MTU.
C1_BundleWithinMTU ==
    \A i \in 1..Len(sent) : sent[i].size <= MTU /\ BufLen(sent[i].bytes) <= MTU

\* C2: at every moment size_muxed_packet is the sum over the pending payloads of
\* sep_len(p) + |p|, and the length of every emitted bundle is exactly that sum for
\* the payloads it carries.
C2_PendingBytesIsSum ==
    /\ size_muxed_packet = BundleSize(pending)
    /\ BufLen(muxed_packet) = size_muxed_packet
    /\ WellFramed(muxed_packet)
    /\ size_muxed_packet = BundleSize(Carried(muxed_packet))
    /\ Len(Carried(muxed_packet)) = num_pkts_stored_from_tap
    /\ \A i \in 1..Len(sent) :
          /\ sent[i].size = BundleSize(sent[i].payloads)
          /\ BufLen(sent[i].bytes) = sent[i].size
          /\ WellFramed(sent[i].bytes)
          /\ sent[i].size = BundleSize(Carried(sent[i].bytes))
          /\ Len(Carried(sent[i].bytes)) = sent[i].npkts

\* C2 witness: a bundle of three payloads with one-byte and two-byte separators has
\* been sent and a payload is pending.
C2_Witness ==
    /\ Len(sent) > 0
    /\ sent[1].npkts = 3
    /\ sent[1].size = (1 + 50) + (2 + 200) + (2 + 100)

\* C3: after any flush, whatever its reason, num_pkts_stored_from_tap = 0,
\* size_muxed_packet = 0 and time_last_sent_in_microsec is the time of that flush.
C3_AfterFlush ==
    event \in FlushEvents =>
        /\ num_pkts_stored_from_tap = 0
        /\ size_muxed_packet = 0
        /\ time_last_sent_in_microsec = LastSent.at

\* C4: without header compression, the receive path that demultiplexes a bundle of
\* the send path writes to tun/tap exactly the payloads of the bundle, with the same
\* lengths and contents, in the same order (stated for the bundles that fit the MTU
\* and so lie inside muxed_packet).
C4_RoundTrip ==
    (event = "net" /\ sent[lastNet.k].size <= MTU) =>
        /\ ~lastNet.exit
        /\ lastNet.nwrites = Len(sent[lastNet.k].payloads)
        /\ \A j \in 1..lastNet.nwrites :
              SameBytes(tapOut[Len(tapOut) - lastNet.nwrites + j],
                        sent[lastNet.k].payloads[j])

\* C5: for every length in 1..16383, decoding the separator bytes the encoder
\* produced gives the same length and consumes sep_len(length) bytes.
C5_DecodeEncode ==
    (pc = "decoded" /\ size_packet_read_from_tap <= MaxSepLength) =>
        /\ packet_length = size_packet_read_from_tap
        /\ position = sep_len(size_packet_read_from_tap)

\* C6: the encoder uses the one-byte form iff length < 64; the one-byte form is
\* 00LLLLLL and the two-byte form 01HHHHHH LLLLLLLL with length = H*256 + L; bit 7
\* of the first byte is 0 and bit 6 is 1 exactly for the two-byte form; 63 gives one
\* byte, 64 two bytes, and 16383 is the largest two-byte value.
C6_SeparatorForm ==
    (pc = "encoded" /\ size_packet_read_from_tap <= MaxSepLength) =>
        LET n  == size_packet_read_from_tap
            b0 == BufAt(muxed_packet, 0)
            b1 == BufAt(muxed_packet, 1)
        IN  /\ BufLen(muxed_packet) = size_muxed_packet
            /\ size_muxed_packet = (IF n < 64 THEN 1 ELSE 2)
            /\ ~Bit(b0, 7)
            /\ Bit(b0, 6) <=> (size_muxed_packet = 2)
            /\ (size_muxed_packet = 1) => (b0 = n)
            /\ (size_muxed_packet = 2) =>
                  /\ b0 \in 64..127
                  /\ b1 \in 0..255
                  /\ ((b0 - 64) * 256) + b1 = n
            /\ (n = 63) => (size_muxed_packet = 1 /\ b0 = 63)
            /\ (n = 64) => (size_muxed_packet = 2 /\ b0 = 64 /\ b1 = 64)
            /\ (n = MaxSepLength) => (b0 = 127 /\ b1 = 255)

\* C6 witness: the largest length of the two-byte form has been encoded.
C6_Witness ==
    /\ pc = "encoded"
    /\ size_packet_read_from_tap = MaxSepLength
    /\ size_muxed_packet = 2

\* C7: over the whole sequence of emitted datagrams, the payloads they carry, in
\* order, are a prefix of the sequence of the packets accepted from tun/tap: none is
\* duplicated, reordered or skipped.
C7_Fifo ==
    LET ps == CarriedBy(sent)
    IN  /\ Len(ps) <= Len(accepted)
        /\ \A i \in 1..Len(ps) : SameBytes(ps[i], accepted[i])

\* C8: in every reachable state size_muxed_packet <= MTU (the stores into
\* muxed_packet[MTU] stay inside it) and num_pkts_stored_from_tap is at most the
\* packet limit.
C8_AccumulatorBounds ==
    /\ size_muxed_packet <= MTU
    /\ BufLen(muxed_packet) <= MTU
    /\ num_pkts_stored_from_tap <= limit_numpackets_tap

\* C9: when packets are stored and the offered packet would make size_muxed_packet
\* exceed MTU, the stored packets are first sent as one bundle without the offered
\* one, and the accumulator then holds exactly the offered packet (one packet,
\* sep_len + |packet| bytes) before the trigger conditions are evaluated.
C9_MtuClamp ==
    [][ /\ ( /\ pc = "mtu"
             /\ num_pkts_stored_from_tap > 0
             /\ size_muxed_packet + sep_len(size_packet_read_from_tap)
                   + size_packet_read_from_tap > MTU )
           => /\ Len(sent') = Len(sent) + 1
              /\ SubSeq(sent', 1, Len(sent)) = sent
              /\ sent'[Len(sent')].size = size_muxed_packet
              /\ sent'[Len(sent')].npkts = num_pkts_stored_from_tap
              /\ sent'[Len(sent')].bytes = Take(muxed_packet, size_muxed_packet)
              /\ Take(sent'[Len(sent')].bytes, MTU) = Take(Bundle(pending), MTU)
              /\ event' = "mtuflush"
              /\ pc' = "append"
        /\ ( /\ pc = "append"
             /\ event = "mtuflush"
             /\ LastSent.npkts > 0 )
           => /\ pc' = "trigger"
              /\ sent' = sent
              /\ num_pkts_stored_from_tap' = 1
              /\ size_muxed_packet' = sep_len(size_packet_read_from_tap)
                                         + size_packet_read_from_tap
              /\ pending' = << packet_read_from_tap >>
              /\ Take(muxed_packet', MTU) = Take(Framed(packet_read_from_tap), MTU)
      ]_vars

\* C9 witness: after 1400 bytes were stored, a packet of 200 bytes was offered, the
\* 1402 bytes were sent because of the MTU, and the packet of 200 bytes is stored.
C9_Witness ==
    /\ pc = "trigger"
    /\ Len(sent) > 0
    /\ LastSent.reason = {"MTU"}
    /\ LastSent.size = 1402
    /\ LastSent.npkts = 1
    /\ num_pkts_stored_from_tap = 1
    /\ size_muxed_packet = 202

\* C10: when nothing is stored and the offered packet alone does not fit
\* (sep_len + |packet| > MTU), the packet is discarded: it is not stored and no
\* datagram, in particular no empty one, is sent.
C10_DropOversize ==
    /\ \A i \in 1..Len(pending) : sep_len(BufLen(pending[i])) + BufLen(pending[i]) <= MTU
    /\ \A i \in 1..Len(sent) : sent[i].npkts >= 1 /\ sent[i].size >= 1

\* whether every packet read from tun/tap so far has len bytes
AllAccepted(len) == \A i \in 1..Len(accepted) : BufLen(accepted[i]) = len

\* C11: with the packet limit N and the size, timeout, period and MTU conditions not
\* reached, nothing is sent while fewer than N packets are stored, and the step that
\* finds N packets stored sends exactly one datagram that carries all N of them;
\* three packets of 50 bytes with N = 3 give one datagram of 153 bytes.
C11_CountTrigger ==
    /\ []( ( /\ limit_numpackets_tap = 3
             /\ ticks = 0
             /\ Len(accepted) = 3
             /\ AllAccepted(50)
             /\ pc = "select" )
           => /\ Len(sent) = 1
              /\ sent[1].size = 3 * (1 + 50)
              /\ sent[1].npkts = 3 )
    /\ [][ /\ (pc = "mtu" /\ predicted_size_muxed_packet <= MTU) => sent' = sent
           /\ (pc = "append") => sent' = sent
           /\ ( /\ pc = "trigger"
                /\ size_muxed_packet <= size_threshold
                /\ now - time_last_sent_in_microsec <= timeout
                /\ num_pkts_stored_from_tap < limit_numpackets_tap )
              => /\ sent' = sent
                 /\ pending' = pending
                 /\ num_pkts_stored_from_tap' = num_pkts_stored_from_tap
           /\ ( /\ pc = "trigger"
                /\ size_muxed_packet <= size_threshold
                /\ now - time_last_sent_in_microsec <= timeout
                /\ num_pkts_stored_from_tap >= limit_numpackets_tap )
              => /\ Len(sent') = Len(sent) + 1
                 /\ SubSeq(sent', 1, Len(sent)) = sent
                 /\ sent'[Len(sent')].npkts = limit_numpackets_tap
                 /\ sent'[Len(sent')].payloads = pending
                 /\ Len(pending) = limit_numpackets_tap
                 /\ sent'[Len(sent')].size = BundleSize(pending)
                 /\ sent'[Len(sent')].bytes = Bundle(pending)
                 /\ num_pkts_stored_from_tap' = 0
                 /\ pending' = << >>
      ]_vars

\* C11 witness: with the limit 3, three packets of 50 bytes left as one datagram of
\* 153 bytes, sent because of the packet limit alone.
C11_Witness ==
    /\ limit_numpackets_tap = 3
    /\ event = "trigflush"
    /\ Len(accepted) = 3
    /\ AllAccepted(50)
    /\ Len(sent) = 1
    /\ sent[1].size = 153
    /\ sent[1].npkts = 3
    /\ sent[1].reason = {"numpacket_limit"}

\* the size trigger scenario: size_threshold 200, packet limit 100, packets of 100
\* bytes only, no period expiry
SizeScenario ==
    /\ size_threshold = 200
    /\ limit_numpackets_tap = 100
    /\ AllAccepted(100)
    /\ ticks = 0

\* C12 as stated: in the size trigger scenario the first sending comes after the
\* third packet of 100 bytes, and nothing is stored after it.
C12_FlushAfterThird ==
    SizeScenario =>
        /\ (Len(accepted) < 3) => (sent = << >>)
        /\ (Len(sent) >= 1) => (sent[1].npkts = 3)
        /\ (event = "trigflush") =>
              (num_pkts_stored_from_tap = 0 /\ size_muxed_packet = 0)

\* C12 amended: in the size trigger scenario the first sending comes after the
\* second packet of 100 bytes (2 * (2 + 100) = 204 > 200), it carries the two
\* packets, and nothing is stored after it.
C12_FlushAfterSecond ==
    SizeScenario =>
        /\ (Len(accepted) < 2) => (sent = << >>)
        /\ (Len(accepted) = 2 /\ pc # "select") => (sent = << >>)
        /\ (Len(accepted) >= 2 /\ pc = "select") => (Len(sent) >= 1)
        /\ (Len(sent) >= 1) =>
              /\ sent[1].npkts = 2
              /\ sent[1].size = 2 * (2 + 100)
              /\ sent[1].reason = {"size_limit"}
              /\ sent[1].payloads = SubSeq(accepted, 1, 2)
        /\ (event = "trigflush") =>
              /\ num_pkts_stored_from_tap = 0
              /\ size_muxed_packet = 0
              /\ pending = << >>
              /\ muxed_packet = << >>

\* C12 witness: the second packet of 100 bytes has just caused the first sending.
C12_Witness ==
    /\ SizeScenario
    /\ Len(accepted) = 2
    /\ event = "trigflush"
    /\ Len(sent) = 1
    /\ sent[1].size = 204
    /\ num_pkts_stored_from_tap = 0

\* the single packet scenario: no option given (the packet limit defaults to 1), one
\* packet of 100 bytes read and handled, no period expiry
SingleScenario ==
    /\ limit_numpackets_tap = 1
    /\ size_threshold = MAXTHRESHOLD
    /\ timeout = MAXTIMEOUT
    /\ period = MAXTIMEOUT
    /\ Len(accepted) = 1
    /\ AllAccepted(100)
    /\ ticks = 0
    /\ pc = "select"

\* C13 as stated: in the single packet scenario exactly one datagram of 101 bytes is
\* sent, the one-byte separator 0x64 followed by the packet.
C13_SingleOneByte ==
    SingleScenario =>
        /\ Len(sent) = 1
        /\ sent[1].size = 101
        /\ BufAt(sent[1].bytes, 0) = 100
        /\ SameBytes(Drop(sent[1].bytes, 1), accepted[1])

\* C13 amended: in the single packet scenario exactly one datagram of 102 bytes is
\* sent, the two-byte separator 0x40 0x64 followed by the packet.
C13_SingleTwoBytes ==
    SingleScenario =>
        /\ Len(sent) = 1
        /\ sent[1].size = 102
        /\ sent[1].npkts = 1
        /\ BufLen(sent[1].bytes) = 102
        /\ BufAt(sent[1].bytes, 0) = 64
        /\ BufAt(sent[1].bytes, 1) = 100
        /\ SameBytes(Drop(sent[1].bytes, 2), accepted[1])

\* C13 witness: the single packet scenario with its datagram sent.
C13_Witness ==
    /\ SingleScenario
    /\ event = "trigflush"
    /\ Len(sent) = 1
    /\ sent[1].size = 102

\* C14: when select() returns with no descriptor ready, the stored packets, if any,
\* are sent as one bundle, and time_last_sent_in_microsec is set to the current time
\* whether or not anything was stored; with no traffic at all every such step moves
\* time_last_sent_in_microsec forward and nothing is ever sent.
C14_TimerTick ==
    /\ []( (accepted = << >>) => (sent = << >>) )
    /\ [][ (ticks' = ticks + 1) =>
             /\ time_last_sent_in_microsec' = now'
             /\ num_pkts_stored_from_tap' = 0
             /\ size_muxed_packet' = 0
             /\ pending' = << >>
             /\ (num_pkts_stored_from_tap > 0) =>
                   /\ Len(sent') = Len(sent) + 1
                   /\ SubSeq(sent', 1, Len(sent)) = sent
                   /\ sent'[Len(sent')].npkts = num_pkts_stored_from_tap
                   /\ sent'[Len(sent')].size = size_muxed_packet
                   /\ sent'[Len(sent')].payloads = pending
                   /\ sent'[Len(sent')].bytes = Take(muxed_packet, size_muxed_packet)
                   /\ sent'[Len(sent')].reason = {"period"}
             /\ (num_pkts_stored_from_tap = 0) => (sent' = sent)
             /\ (accepted = << >>) =>
                   /\ time_last_sent_in_microsec' > time_last_sent_in_microsec
                   /\ sent' = << >>
      ]_vars

\* C14 witness: the period expired once with nothing stored and once more with a
\* packet stored, which was sent.
C14_Witness ==
    /\ ticks = 2
    /\ event = "periodflush"
    /\ Len(sent) = 1
    /\ LastSent.reason = {"period"}
    /\ LastSent.npkts >= 1
    /\ time_last_sent_in_microsec = now

\* C15: with a finite period, once packets are stored and the period has passed
\* since time_last_sent_in_microsec, the stored packets are eventually sent, whether
\* or not packets keep arriving at tun/tap or datagrams at the socket.
C15_PeriodLiveness ==
    ( /\ num_pkts_stored_from_tap > 0
      /\ now - time_last_sent_in_microsec >= period )
    ~> (num_pkts_stored_from_tap = 0 \/ pc = "exit")

\* C16: a packet that waits at the tun/tap device is eventually read by the TAP to
\* NET branch, even when datagrams keep arriving at the socket.
C16_TapNotStarved ==
    (tap_fd # << >>) ~> (event = "tap" \/ pc = "exit")

\* C17: each time select() returns exactly one branch runs; with net_fd reported
\* ready the NET to TAP branch runs, reads one datagram and leaves the packets at
\* tun/tap unread; with tap_fd alone reported ready the TAP to NET branch reads one
\* packet; the period branch runs only when no descriptor was reported ready; no
\* branch reads more than one datagram or packet.
C17_OneBranch ==
    [][ (pc = "ready" /\ pc' # "ready") =>
          /\ event' \in {"net", "tap", "period"}
          /\ ("net_fd" \in rd_set) =>
                /\ event' = "net"
                /\ net_fd # << >>
                /\ net_fd' = Tail(net_fd)
                /\ remote' = Head(net_fd).from
                /\ tap_fd' = tap_fd
                /\ accepted' = accepted
          /\ ("net_fd" \notin rd_set /\ "tap_fd" \in rd_set) =>
                /\ event' = "tap"
                /\ tap_fd # << >>
                /\ tap_fd' = Tail(tap_fd)
                /\ net_fd' = net_fd
                /\ tapOut' = tapOut
          /\ (rd_set = {}) => (event' = "period")
          /\ (event' = "period") =>
                /\ rd_set = {}
                /\ net_fd' = net_fd
                /\ tap_fd' = tap_fd
          /\ (Len(net_fd) - Len(net_fd')) + (Len(tap_fd) - Len(tap_fd')) <= 1
      ]_vars

\* C17 witness: both descriptors were reported ready, the NET to TAP branch ran, and
\* a packet still waits at tun/tap and a second datagram at the socket.
C17_Witness ==
    /\ event = "net"
    /\ pc = "select"
    /\ rd_set = {"net_fd", "tap_fd"}
    /\ tap_fd # << >>
    /\ Len(net_fd) = 1

\* what the receive path is to do with the bytes of a bundle: the payloads to write,
\* in order, and how the parsing ends
RECURSIVE RefParse(_)
RefParse(buf) ==
    IF buf = << >> THEN [writes |-> << >>, end |-> "done"]
    ELSE LET x   == BufAt(buf, 0)
             hdr == IF x % 128 < 64 THEN 1 ELSE 2
             len == IF x % 128 < 64 THEN x % 64 ELSE ((x % 64) * 256) + BufAt(buf, 1)
         IN  IF x >= 128 THEN [writes |-> << >>, end |-> "bad_separator"]
             ELSE IF hdr + len > BufLen(buf)
             THEN [writes |-> << >>, end |-> "bad_length"]
             ELSE LET r == RefParse(Drop(buf, hdr + len))
                  IN  [r EXCEPT !.writes = << Take(Drop(buf, hdr), len) >> \o @]

\* whether two sequences of buffers hold the same bytes
SameSeqs(a, b) ==
    /\ Len(a) = Len(b)
    /\ \A i \in 1..Len(a) : SameBytes(a[i], b[i])

\* the step is a NET to TAP branch
NetStep == pc = "ready" /\ event' = "net" /\ net_fd # << >>

\* C18: a received datagram is demultiplexed if and only if its source port is the
\* multiplexing port; otherwise the whole datagram is written to tun/tap as it is,
\* in one write of exactly the bytes received, and no separator is looked at.
C18_PassThrough ==
    [][ NetStep =>
          LET d == Head(net_fd)
          IN  /\ lastNet'.muxed <=> (d.from.port = PORT)
              /\ (d.from.port # PORT) =>
                    /\ Len(tapOut') = 1
                    /\ SameBytes(tapOut'[1], d.bytes)
                    /\ nread_from_net' = BufLen(d.bytes)
                    /\ lastNet'.log = << "native" >>
                    /\ ~lastNet'.exit
                    /\ pc' = "select"
              /\ (d.from.port = PORT) => ("native" \notin { lastNet'.log[i] : i \in DOMAIN lastNet'.log })
      ]_vars

\* C18 witness: a datagram that begins with 0x80 came from another port and was
\* written to tun/tap as it is.
C18_Witness ==
    /\ event = "net"
    /\ remote = Stranger
    /\ ~lastNet.muxed
    /\ Len(tapOut) = 1
    /\ BufAt(tapOut[1], 0) = 128
    /\ BufLen(tapOut[1]) = 5

\* C19: when the byte at the parse cursor has bit 7 set, the parsing of the datagram
\* stops there: the payloads before that byte have been written and nothing else is,
\* one bad_separator record is made, and the loop goes on; a datagram that begins
\* with 0x80 causes no write at all.
C19_BadSeparator ==
    [][ (NetStep /\ Head(net_fd).from.port = PORT) =>
          LET d == Head(net_fd).bytes
              r == RefParse(d)
          IN  /\ (r.end = "bad_separator" /\ ~lastNet'.exit) =>
                    /\ lastNet'.log = << "bad_separator" >>
                    /\ SameSeqs(tapOut', r.writes)
                    /\ pc' = "select"
              /\ (\E i \in DOMAIN lastNet'.log : lastNet'.log[i] = "bad_separator") =>
                    /\ lastNet'.log = << "bad_separator" >>
                    /\ r.end = "bad_separator"
                    /\ Bit(BufAt(d, BundleSize(tapOut')), 7)
              /\ (BufAt(d, 0) >= 128) =>
                    /\ tapOut' = << >>
                    /\ Len(lastNet'.writes) = 0
                    /\ lastNet'.log = << "bad_separator" >>
                    /\ pc' = "select"
      ]_vars

\* C19 witness: a datagram with one packet and then a separator with bit 7 set has
\* been handled: one write, one bad_separator record, and the loop goes on.
C19_Witness ==
    /\ event = "net"
    /\ pc = "select"
    /\ lastNet.muxed
    /\ lastNet.log = << "bad_separator" >>
    /\ Len(lastNet.writes) = 1
    /\ BufLen(tapOut[1]) = 3

\* C20: when a separator declares more bytes than are left in the datagram, that
\* payload is not written, one demux_bad_length record is made and the parsing of
\* the datagram ends; the payloads before it have been written and the loop goes on.
C20_TruncatedPayload ==
    [][ (NetStep /\ Head(net_fd).from.port = PORT) =>
          LET d == Head(net_fd).bytes
              r == RefParse(d)
          IN  (r.end = "bad_length") =>
                 /\ lastNet'.log = << "demux_bad_length" >>
                 /\ ~lastNet'.exit
                 /\ SameSeqs(tapOut', r.writes)
                 /\ pc' = "select"
      ]_vars

\* the payloads of the last datagram that were given to the decompressor
Decompressed == lastNet.done

\* C21: with -r, when the decompression of a payload succeeds and gives no packet,
\* nothing is written to tun/tap for that payload and the next payload of the
\* datagram is taken.
C21_EmptyNotWritten ==
    (event = "net" /\ compress_headers = 1) =>
        \A i \in DOMAIN Decompressed :
            (Decompressed[i].status = "ROHC_STATUS_OK" /\ Decompressed[i].empty) =>
                /\ Decompressed[i].cwrite = "none"
                /\ (i < Len(lastNet.payloads)) => (Len(Decompressed) > i)

\* C22: with -r, when the decompression of a payload fails, nothing is written to
\* tun/tap for that payload, decomp_failed is recorded, and the next payload of the
\* datagram is taken.
C22_FailedNotWritten ==
    (event = "net" /\ compress_headers = 1 /\ lastNet.recvfrom = "ok"
     /\ lastNet.muxed) =>
        /\ \A i \in DOMAIN Decompressed :
              (Decompressed[i].status # "ROHC_STATUS_OK") =>
                  /\ Decompressed[i].cwrite = "none"
                  /\ Decompressed[i].log = << "decomp_failed" >>
                  /\ (i < Len(lastNet.payloads)) => (Len(Decompressed) > i)
        /\ Len(tapOut) <=
              Cardinality({ i \in DOMAIN Decompressed :
                              Decompressed[i].status = "ROHC_STATUS_OK" })

\* a datagram of two payloads: the decompression of the first failed, the second
\* was decompressed and written
C22_Witness ==
    /\ event = "net"
    /\ compress_headers = 1
    /\ pc = "select"
    /\ Len(lastNet.payloads) = 2
    /\ Len(Decompressed) = 2
    /\ Decompressed[1].status = "ROHC_STATUS_ERROR"
    /\ Decompressed[2].status = "ROHC_STATUS_OK"
    /\ ~Decompressed[2].empty
    /\ tapOut = << Decompressed[2].packet >>
    /\ BufLen(tapOut[1]) = 100

\* C23: with -r, when the compressor fails on a packet read from tun/tap, only that
\* packet is dropped: the number of stored packets, their size, the stored packets
\* and the time of the last sending are as before, and no datagram is sent.
C23_CompressFailedDropped ==
    [][ (pc = "select" /\ event' = "tap" /\ compress_headers = 1
         /\ status' = "ROHC_STATUS_ERROR") =>
            /\ num_pkts_stored_from_tap' = num_pkts_stored_from_tap
            /\ size_muxed_packet' = size_muxed_packet
            /\ pending' = pending
            /\ time_last_sent_in_microsec' = time_last_sent_in_microsec
            /\ sent' = << >>
      ]_vars

\* C24: with -r, when the compressor reports that the packet must be segmented,
\* the packet is dropped and not added to the stored packets.
C24_SegmentDropped ==
    [][ (pc = "select" /\ event' = "tap" /\ compress_headers = 1
         /\ status' = "ROHC_STATUS_SEGMENT") =>
            /\ num_pkts_stored_from_tap' = num_pkts_stored_from_tap
            /\ size_muxed_packet' = size_muxed_packet
            /\ pending' = pending
      ]_vars

\* C25: when recvfrom() fails, the failure is detected and reported, nothing is
\* demultiplexed or written to tun/tap and the loop goes back to the wait.
C25_RecvfromFailure ==
    (event = "net" /\ lastNet.recvfrom = "failed") =>
        /\ "recvfrom" \in { lastNet.log[i] : i \in DOMAIN lastNet.log }
        /\ tapOut = << >>
        /\ pc = "select"

\* C26: when sendto() fails in one of the three places where the stored packets
\* are sent, the loop goes on and the stored packets are given up as after a
\* sendto() that succeeded: after the sending for the MTU only the packet just
\* read is stored, after the other two nothing is stored and the time of the
\* last sending is the time of this one.
C26_SendtoFailure ==
    [][ (pc = "select" /\ event' \in {"tap", "period"}
         /\ \E i \in DOMAIN sent' : ~sent'[i].ok) =>
            /\ pc' = "select"
            /\ IF sent'[Len(sent')].reason = {"MTU"}
               THEN /\ num_pkts_stored_from_tap' = 1
                    /\ size_muxed_packet' = StoredSize(0, size_packet_read_from_tap')
                    /\ pending' = << packet_read_from_tap' >>
                    /\ time_last_sent_in_microsec' = time_last_sent_in_microsec
               ELSE /\ num_pkts_stored_from_tap' = 0
                    /\ size_muxed_packet' = 0
                    /\ pending' = << >>
                    /\ time_last_sent_in_microsec' = now'
      ]_vars

\* the second packet of 50 bytes reached the packet limit and sendto() failed
C26_Witness ==
    /\ event = "tap"
    /\ compress_headers = 0
    /\ Len(sent) = 1
    /\ ~sent[1].ok
    /\ sent[1].reason = {"numpacket_limit"}
    /\ sent[1].npkts = 2
    /\ sent[1].size = 102
    /\ num_pkts_stored_from_tap = 0
    /\ size_muxed_packet = 0
    /\ pc = "select"

\* C27: no failed call ends the process once the loop runs: not a failed write to
\* tun/tap, not a failed read from it, not a failed select().
C27_NoExit ==
    ( \/ event \in {"cread_failed", "select_failed"}
      \/ (event = "net" /\ lastNet.recvfrom = "ok" /\ lastNet.exit) ) =>
        pc # "exit"

\* C28: when no packet limit is given, the limit is 1 if the size threshold, the
\* timeout and the period are all left at their defaults and MAXPKTS if one of them
\* has any other value; the limit is at least 1 in every configuration, and a given
\* limit of 1 or more is kept.
C28_LimitDefault ==
    [][ (pc = "options") =>
          LET defaults == /\ size_threshold = MAXTHRESHOLD
                          /\ timeout = MAXTIMEOUT
                          /\ period = MAXTIMEOUT
          IN  /\ (limit_numpackets_tap = 0 /\ defaults) => (limit_numpackets_tap' = 1)
              /\ (limit_numpackets_tap = 0 /\ ~defaults) =>
                    (limit_numpackets_tap' = MAXPKTS)
              /\ limit_numpackets_tap' >= 1
              /\ (limit_numpackets_tap >= 1) =>
                    (limit_numpackets_tap' = limit_numpackets_tap)
      ]_vars

\* C29: if timeout >= period, no sending is ever caused by the timeout condition:
\* at no packet read from tun/tap is the time since the last sending above the
\* timeout.
C29_TimeoutNotBeforePeriod ==
    (timeout >= period) =>
        \A i \in 1..Len(sent) : "timeout" \notin sent[i].reason

\* C30: if timeout < period, the timeout has no effect: no sending is ever caused by
\* the timeout condition.
C30_TimeoutNoEffect ==
    (timeout < period) =>
        \A i \in 1..Len(sent) : "timeout" \notin sent[i].reason

\* C31: every datagram of stored packets is sent to the address and port of the
\* peer given on the command line: a datagram received from another address or
\* port does not change where the later ones are sent.
C31_SentToPeer ==
    \A i \in DOMAIN sent : sent[i].to = Peer

C33_Deadline ==
    [][ (pc = "select" /\ pc' = "ready" /\ rd_set' = {}) =>
          LET elapsed == now - time_last_sent_in_microsec
              waited  == now' - now
          IN  /\ waited >= 0
              /\ waited <= period
              /\ (elapsed >= period) => (waited = 0)
              /\ (elapsed < period /\ now' < MaxNow) => (waited = period - elapsed)
      ]_vars

\* select() was called after more than the period had passed and returned at once
\* with no descriptor ready
C33_Witness ==
    /\ event = "select"
    /\ pc = "ready"
    /\ rd_set = {}
    /\ time_in_microsec = now
    /\ now - time_last_sent_in_microsec > period

\* C34: while a datagram is demultiplexed, buffer_from_net is never read at an
\* index at or beyond the received length and demuxed_packet is never stored to at
\* index 1500 or more; a two-byte separator without its second byte and a declared
\* length above what follows or above 1500 are rejected before a byte is copied.
C34_ParseInBounds ==
    (event = "iteration") =>
        /\ lastNet.readMax < nread_from_net
        /\ lastNet.writeMax < MTU
        /\ (lastNet.log = << "demux_bad_length" >>) => (lastNet.writeMax = -1)

\* C35: every iteration of the demultiplexing loop moves position forward by at
\* least one byte or sets it to the received length, whatever the bytes are, so the
\* loop ends.
C35_ParseAdvances ==
    [][ (pc = "demux" /\ position < nread_from_net) =>
            /\ (position' > position) \/ (position' = nread_from_net)
            /\ position' >= position
      ]_vars

\* a packet of no bytes and then a bad separator: the loop ended after two
\* iterations, with the empty packet written
C35_Witness ==
    /\ event = "parsed"
    /\ pc = "select"
    /\ buffer_from_net = << Lit(0), Lit(128) >>
    /\ position = 2
    /\ nread_from_net = 2
    /\ tapOut = << << >> >>

\* C36: each time the loop goes back to the wait, fewer packets than the packet
\* limit are stored and their size is not above the size threshold (for a limit of
\* 1 or more), so what is sent for the MTU or at the end of the period has fewer
\* packets than the limit and no more bytes than the threshold.
C36_BelowTriggersAtWait ==
    (limit_numpackets_tap >= 1) =>
        /\ (pc = "select") => /\ num_pkts_stored_from_tap < limit_numpackets_tap
                              /\ size_muxed_packet <= size_threshold
        /\ \A i \in 1..Len(sent) :
              (sent[i].reason \in {{"MTU"}, {"period"}}) =>
                  /\ sent[i].npkts < limit_numpackets_tap
                  /\ sent[i].size <= size_threshold

\* with -n 3, two packets were stored when the period ended and were sent
C36_Witness ==
    /\ event = "periodflush"
    /\ limit_numpackets_tap = 3
    /\ LastSent.reason = {"period"}
    /\ LastSent.npkts = 2
    /\ pc = "select"
    /\ num_pkts_stored_from_tap = 0

====
